---- MODULE Spec2Model ----
(***************************************************************************)
(* A model of the decision plane of the IAM authorization server:          *)
(*   - the authorize handler and the Authorizer (package authorize,        *)
(*     package authorization),                                             *)
(*   - the cache Loader and its invalidation listener (package load),      *)
(*   - the decision audit pipeline (package analytics),                    *)
(*   - the signal handler (package server).                                *)
(* Each component has its own specification over its own variables; the    *)
(* variables of the other components stay parked at their initial value.   *)
(***************************************************************************)
EXTENDS Integers, Sequences, FiniteSets, TLC

VARIABLES
    \* ---- authorize handler / Authorizer
    policyCache,   \* username -> sequence of cached policies
    body,          \* the request as bound from the request body
    bindFails,     \* whether c.ShouldBind returns an error for this call
    ginUsername,   \* c.GetString("username"): the authenticated identity
    r,             \* the handler's local ladon.Request
    rsp,           \* the authzv1.Response written
    hPc            \* position in AuthzHandler.Authorize

authzVars == <<policyCache, body, bindFails, ginUsername, r, rsp, hPc>>

VARIABLES
    \* ---- signal handler (package server)
    proc,                  \* the process: "running", "exited" or "panicked"
    exitCode,              \* the status os.Exit was called with (-1: none)
    onlyOneSignalHandler,  \* the guard channel: "open" or "closed"
    shutdownHandler,       \* nil, or the buffered channel of signals
    stop,                  \* the stop channel: "none", "open" or "closed"
    setupPc,               \* position of the SetupSignalHandler call in progress
    setupCalls,            \* SetupSignalHandler calls begun
    sigPc,                 \* position of the goroutine SetupSignalHandler starts
    notified,              \* whether signal.Notify has registered shutdownHandler
    sigsSent,              \* OS signals raised
    reqCalls,              \* RequestShutdown calls made
    reqResult,             \* what the last RequestShutdown returned
    received,              \* signals the goroutine has taken from shutdownHandler
    stopCloses             \* close(stop) executions

signalVars == <<proc, exitCode, onlyOneSignalHandler, shutdownHandler, stop, setupPc,
                setupCalls, sigPc, notified, sigsSent, reqCalls, reqResult, received,
                stopCloses>>

VARIABLES
    \* ---- Loader and invalidation listener (package load)
    ctxDone,      \* whether the Loader's context has been cancelled
    startPc,      \* position in Load.Start
    psPc,         \* position of startPubSubLoop / handleRedisEvent
    ev,           \* the notification handleRedisEvent is delivering
    events,       \* bus messages handled so far
    handledCalls, \* invocations of the handled callback
    rqPc,         \* position of reloadQueueLoop
    rqFn,         \* fn, the callback reloadQueueLoop received
    requeue,      \* the pending callbacks (0 is a nil callback)
    rlPc,         \* position of reloadLoop
    rlCb,         \* cb, the callbacks reloadLoop took at its last tick
    rlIdx,        \* callbacks of cb already visited
    took,         \* how many callbacks the last tick took
    invoked,      \* the callbacks run so far, in order
    ticks,        \* ticks of the reload ticker served
    drPc,         \* position in DoReload, per caller
    drErr,        \* whether the caller's last store.Reload failed
    drBefore,     \* the cache when the caller's DoReload took the lock
    lock,         \* the holder of the Loader's lock ("none": free)
    cache,        \* the snapshot: generation of its secrets and of its policies
    observed,     \* the snapshot the last reader saw
    windowCount,  \* callbacks appended since the last tick
    cycleReloads  \* store reloads made by reloadLoop since its last tick

loadVars == <<ctxDone, startPc, psPc, ev, events, handledCalls, rqPc, rqFn, requeue, rlPc,
              rlCb, rlIdx, took, invoked, ticks, drPc, drErr, drBefore, lock, cache,
              observed, windowCount, cycleReloads>>

VARIABLES
    \* ---- decision audit pipeline (package analytics)
    poolSize,           \* options.PoolSize
    recordsBufferSize,  \* options.RecordsBufferSize
    aPc,                \* "idle" before Analytics.Start, "started" after
    aPanic,             \* the panic that ended the process ("": none)
    shouldStop,         \* r.shouldStop
    recordsChan,        \* the records buffered in r.recordsChan
    chanClosed,         \* whether r.recordsChan is closed
    poolWg,             \* the counter of r.poolWg
    stopPc,             \* position of each Stop call
    returnedBefore,     \* per Stop call: the records whose RecordHit had returned when it began
    recPc,              \* position of the RecordHit call of each record
    wPc,                \* position of each recordWorker
    wBuf,               \* recordsBuffer of each worker
    wStale,             \* per worker: time.Since(lastSentTS) >= recordsBufferForcedFlushInterval
    sink                \* per worker, what it has passed to AppendToSetPipelined

analyticsVars == <<poolSize, recordsBufferSize, aPc, aPanic, shouldStop, recordsChan, chanClosed,
                   poolWg, stopPc, returnedBefore, recPc, wPc, wBuf, wStale, sink>>

VARIABLES
    \* ---- authorization server lifecycle (authzServer, shutdown coordinator)
    analyticsEnable,    \* s.analyticsOptions.Enable
    initFails,          \* whether store.GetStoreInsOr returns an error
    srvPc,              \* position of PrepareRun / initialize
    callbacks,          \* the shutdown callbacks, in registration order
    gsPc,               \* shutdown coordinator: "armed", "draining", "done"
    gsIdx,              \* index of the callback the coordinator is running
    ran,                \* the callbacks that have run to their return
    apiClosed           \* whether genericAPIServer.Close() has run

serverVars == <<analyticsEnable, initFails, srvPc, callbacks, gsPc, gsIdx, ran, apiClosed>>

VARIABLES
    \* ---- authentication middleware (package auth, cache strategy)
    tNow,               \* time.Now(): seconds since the epoch and the part below a second
    hasHeader,          \* whether the request has an Authorization header
    token,              \* the bearer token of the request
    secretExpires,      \* Secret.Expires of the secret the cache holds
    afPc,               \* position of the handler returned by AuthFunc
    afSecret,           \* the variable secret of the handler
    afErr,              \* err of jwt.ParseWithClaims ("": nil)
    afExpired,          \* what KeyExpired(secret.Expires) returned
    afRsp,              \* the response written and whether c.Abort() ran
    afUsername,         \* the value set under middleware.UsernameKey ("": unset)
    afNext              \* whether c.Next() ran

authnVars == <<tNow, hasHeader, token, secretExpires, afPc, afSecret, afErr, afExpired, afRsp,
               afUsername, afNext>>

vars == <<authzVars, signalVars, loadVars, analyticsVars, serverVars, authnVars>>

\* what the steps of one component leave alone
notAuthz == <<signalVars, loadVars, analyticsVars, serverVars, authnVars>>

notSignal == <<authzVars, loadVars, analyticsVars, serverVars, authnVars>>

notLoad == <<authzVars, signalVars, analyticsVars, serverVars, authnVars>>

notAnalytics == <<authzVars, signalVars, loadVars, serverVars, authnVars>>

notServer == <<authzVars, signalVars, loadVars, analyticsVars, authnVars>>

notAuthn == <<authzVars, signalVars, loadVars, analyticsVars, serverVars>>

-----------------------------------------------------------------------------
(* Bounds *)

MaxPolicies == 2

MaxSetupCalls == 2

MaxSignals == 3

MaxRequests == 2

MaxEvents == 2

MaxTicks == 2

MaxPoolSize == 2

MaxRecordsBufferSize == 2

MaxRecords == 2

MaxNow == 3

-----------------------------------------------------------------------------
(* Authorize handler and Authorizer *)

Usernames == {"alice", "bob"}

\* ladon.Context: a nil map, or a map given as its set of <<key, value>> pairs
NilContext == [nil |-> TRUE, m |-> {}]

EmptyContext == [nil |-> FALSE, m |-> {}]

ContextHas(ctx, k) == \E kv \in ctx.m : kv[1] = k

\* reading a key of a map (a nil map reads as empty); "" when absent
ContextGet(ctx, k) == IF ContextHas(ctx, k) THEN (CHOOSE kv \in ctx.m : kv[1] = k)[2] ELSE ""

\* r.Context[k] = v
ContextSet(ctx, k, v) == [nil |-> FALSE, m |-> {kv \in ctx.m : kv[1] # k} \cup {<<k, v>>}]

\* the policies the cache may hold: subjects, resources and actions are pattern
\* lists, "<.*>" being the wildcard; cond is the value a StringEqual condition
\* on Context["username"] asks for, "" when the policy declares no condition
PolicyUniverse ==
    [subjects : {{"alice"}, {"<.*>"}}, resources : {{"r1"}}, actions : {{"read"}},
     effect : {"allow", "deny"}, cond : {"", "alice"}]

RECURSIVE SeqsUpTo(_, _)
SeqsUpTo(S, n) ==
    IF n = 0 THEN {<<>>}
    ELSE LET shorter == SeqsUpTo(S, n - 1)
         IN  shorter \cup {Append(s, x) : s \in {t \in shorter : Len(t) = n - 1}, x \in S}

Bodies ==
    [Subject : {"alice", "bob"}, Resource : {"r1", "r2"}, Action : {"read", "write"},
     Context : {NilContext, EmptyContext,
                ContextSet(EmptyContext, "username", "alice"),
                ContextSet(EmptyContext, "username", "bob")}]

NoRequest == [Subject |-> "", Resource |-> "", Action |-> "", Context |-> NilContext]

NoResponse == [Allowed |-> FALSE, Denied |-> FALSE, Reason |-> ""]

\* the matcher of the rules engine: a pattern list matches a needle when one of
\* its patterns equals it or is the wildcard
Matches(haystack, needle) == \E h \in haystack : h = needle \/ h = "<.*>"

\* all declared conditions evaluate true against request.Context
PassesConditions(p, req) == p.cond = "" \/ ContextGet(req.Context, "username") = p.cond

PolicyMatches(p, req) ==
    /\ Matches(p.actions, req.Action)
    /\ Matches(p.subjects, req.Subject)
    /\ Matches(p.resources, req.Resource)
    /\ PassesConditions(p, req)

\* the ordered scan of the candidates: the first matching deny policy ends it,
\* a matching allow policy is remembered; "" stands for a nil error
RECURSIVE DoPoliciesAllow(_, _, _)
DoPoliciesAllow(req, ps, allowed) ==
    IF ps = <<>> THEN (IF allowed THEN "" ELSE "Request was denied by default")
    ELSE IF ~PolicyMatches(Head(ps), req) THEN DoPoliciesAllow(req, Tail(ps), allowed)
    ELSE IF Head(ps).effect # "allow" THEN "Request was forcefully denied"
    ELSE DoPoliciesAllow(req, Tail(ps), TRUE)

\* the policy manager: only the policies of the request's user are candidates
FindRequestCandidates(req) ==
    LET u == ContextGet(req.Context, "username")
    IN  IF u \in DOMAIN policyCache THEN policyCache[u] ELSE <<>>

IsAllowed(req) == DoPoliciesAllow(req, FindRequestCandidates(req), FALSE)

AuthorizeAllowsDefaultDenied(req) ==
    LET err == IsAllowed(req)
    IN  IF err = "Request was forcefully denied"
        THEN [Allowed |-> FALSE, Denied |-> TRUE, Reason |-> err]
        ELSE [Allowed |-> TRUE, Denied |-> FALSE, Reason |-> ""]

\* Authorizer.Authorize
Authorize(req) ==
    LET err == IsAllowed(req)
    IN  IF err # ""
        THEN [Allowed |-> FALSE, Denied |-> TRUE, Reason |-> err]
        ELSE [Allowed |-> TRUE, Denied |-> FALSE, Reason |-> ""]

AuthzInit ==
    /\ ginUsername \in Usernames
    /\ \E ps \in SeqsUpTo(PolicyUniverse, MaxPolicies) :
          policyCache = [u \in Usernames |-> IF u = ginUsername THEN ps ELSE <<>>]
    /\ body \in Bodies
    /\ bindFails \in BOOLEAN
    /\ r = NoRequest
    /\ rsp = NoResponse
    /\ hPc = "bind"

AuthzParked ==
    /\ ginUsername = "alice"
    /\ policyCache = [u \in Usernames |-> <<>>]
    /\ body = NoRequest
    /\ bindFails = FALSE
    /\ r = NoRequest
    /\ rsp = NoResponse
    /\ hPc = "bind"

\* c.ShouldBind(&r) succeeds
HandlerBind ==
    /\ hPc = "bind"
    /\ ~bindFails
    /\ r' = body
    /\ hPc' = "bound"
    /\ UNCHANGED <<policyCache, body, bindFails, ginUsername, rsp>>
    /\ UNCHANGED notAuthz

\* c.ShouldBind(&r) fails: the error is written and the handler returns
HandlerBindError ==
    /\ hPc = "bind"
    /\ bindFails
    /\ hPc' = "rejected"
    /\ UNCHANGED <<policyCache, body, bindFails, ginUsername, r, rsp>>
    /\ UNCHANGED notAuthz

SetUsernameKeepingBody(req) ==
    IF ContextHas(req.Context, "username") THEN req
    ELSE [req EXCEPT !.Context = ContextSet(req.Context, "username", ginUsername)]

\* if r.Context == nil { r.Context = ladon.Context{} }
\* r.Context["username"] = c.GetString("username")
SetUsername(req) ==
    LET ctx == IF req.Context.nil THEN EmptyContext ELSE req.Context
    IN  [req EXCEPT !.Context = ContextSet(ctx, "username", ginUsername)]

HandlerSetUsername ==
    /\ hPc = "bound"
    /\ r' = SetUsername(r)
    /\ hPc' = "authorize"
    /\ UNCHANGED <<policyCache, body, bindFails, ginUsername, rsp>>
    /\ UNCHANGED notAuthz

\* rsp := auth.Authorize(&r); core.WriteResponse(c, nil, rsp)
HandlerAuthorize ==
    /\ hPc = "authorize"
    /\ rsp' = Authorize(r)
    /\ hPc' = "done"
    /\ UNCHANGED <<policyCache, body, bindFails, ginUsername, r>>
    /\ UNCHANGED notAuthz

AuthzNext ==
    \/ HandlerBind
    \/ HandlerBindError
    \/ HandlerSetUsername
    \/ HandlerAuthorize

-----------------------------------------------------------------------------
(* Claims about the authorize handler and the Authorizer *)

MatchingWithEffect(e) ==
    {i \in 1..Len(policyCache[ginUsername]) :
        /\ PolicyMatches(policyCache[ginUsername][i], r)
        /\ policyCache[ginUsername][i].effect = e}

C6_UsernameInjected ==
    hPc \in {"authorize", "done"} =>
        /\ ~r.Context.nil
        /\ ContextGet(r.Context, "username") = ginUsername
        /\ Cardinality({kv \in r.Context.m : kv[1] = "username"}) = 1

\* a body that named another user was evaluated under the caller's identity
C6_Witness ==
    /\ hPc = "done"
    /\ ContextHas(body.Context, "username")
    /\ ContextGet(body.Context, "username") # ginUsername
    /\ ContextGet(r.Context, "username") = ginUsername

-----------------------------------------------------------------------------
(* Signal handler: SetupSignalHandler, its goroutine, RequestShutdown *)

\* shutdownSignals = {os.Interrupt, syscall.SIGTERM}
shutdownSignals == <<"SIGINT", "SIGTERM">>

\* make(chan os.Signal, 2)
ShutdownHandlerCap == 2

NilChan == [nil |-> TRUE, buf |-> <<>>]

SignalInit ==
    /\ proc = "running"
    /\ exitCode = -1
    /\ onlyOneSignalHandler = "open"
    /\ shutdownHandler = NilChan
    /\ stop = "none"
    /\ setupPc = "idle"
    /\ setupCalls = 0
    /\ sigPc = "none"
    /\ notified = FALSE
    /\ sigsSent = 0
    /\ reqCalls = 0
    /\ reqResult = "none"
    /\ received = 0
    /\ stopCloses = 0

\* SetupSignalHandler is called
SetupCall ==
    /\ proc = "running"
    /\ setupPc = "idle"
    /\ setupCalls < MaxSetupCalls
    /\ setupCalls' = setupCalls + 1
    /\ setupPc' = "guard"
    /\ UNCHANGED <<proc, exitCode, onlyOneSignalHandler, shutdownHandler, stop, sigPc,
                   notified, sigsSent, reqCalls, reqResult, received, stopCloses>>
    /\ UNCHANGED notSignal

\* a guard that lets a later call through
SetupGuardReentrant ==
    /\ proc = "running"
    /\ setupPc = "guard"
    /\ onlyOneSignalHandler' = "closed"
    /\ setupPc' = "make"
    /\ UNCHANGED <<proc, exitCode, shutdownHandler, stop, setupCalls, sigPc, notified,
                   sigsSent, reqCalls, reqResult, received, stopCloses>>
    /\ UNCHANGED notSignal

\* close(onlyOneSignalHandler): panics when the channel is already closed
SetupGuard ==
    /\ proc = "running"
    /\ setupPc = "guard"
    /\ IF onlyOneSignalHandler = "closed"
       THEN /\ proc' = "panicked"
            /\ UNCHANGED <<onlyOneSignalHandler, setupPc>>
       ELSE /\ onlyOneSignalHandler' = "closed"
            /\ setupPc' = "make"
            /\ UNCHANGED proc
    /\ UNCHANGED <<exitCode, shutdownHandler, stop, setupCalls, sigPc, notified, sigsSent,
                   reqCalls, reqResult, received, stopCloses>>
    /\ UNCHANGED notSignal

\* shutdownHandler = make(chan os.Signal, 2); stop := make(chan struct{})
SetupMake ==
    /\ proc = "running"
    /\ setupPc = "make"
    /\ shutdownHandler' = [nil |-> FALSE, buf |-> <<>>]
    /\ stop' = "open"
    /\ setupPc' = "notify"
    /\ UNCHANGED <<proc, exitCode, onlyOneSignalHandler, setupCalls, sigPc, notified, sigsSent,
                   reqCalls, reqResult, received, stopCloses>>
    /\ UNCHANGED notSignal

\* signal.Notify(shutdownHandler, shutdownSignals...)
SetupNotify ==
    /\ proc = "running"
    /\ setupPc = "notify"
    /\ notified' = TRUE
    /\ setupPc' = "go"
    /\ UNCHANGED <<proc, exitCode, onlyOneSignalHandler, shutdownHandler, stop, setupCalls,
                   sigPc, sigsSent, reqCalls, reqResult, received, stopCloses>>
    /\ UNCHANGED notSignal

\* go func() { ... }(); return stop
SetupGo ==
    /\ proc = "running"
    /\ setupPc = "go"
    /\ sigPc' = "first"
    /\ setupPc' = "idle"
    /\ UNCHANGED <<proc, exitCode, onlyOneSignalHandler, shutdownHandler, stop, setupCalls,
                   notified, sigsSent, reqCalls, reqResult, received, stopCloses>>
    /\ UNCHANGED notSignal

\* the OS raises SIGINT or SIGTERM: the signal package sends it to the
\* registered channel without blocking, and drops it when the buffer is full.
\* (Before signal.Notify the signal takes the OS default and is not the
\* handler's concern.)
OsSignal ==
    /\ proc = "running"
    /\ notified
    /\ sigsSent < MaxSignals
    /\ sigsSent' = sigsSent + 1
    /\ \E i \in 1..Len(shutdownSignals) :
          shutdownHandler' =
              IF Len(shutdownHandler.buf) < ShutdownHandlerCap
              THEN [shutdownHandler EXCEPT !.buf = Append(@, shutdownSignals[i])]
              ELSE shutdownHandler
    /\ UNCHANGED <<proc, exitCode, onlyOneSignalHandler, stop, setupPc, setupCalls, sigPc,
                   notified, reqCalls, reqResult, received, stopCloses>>
    /\ UNCHANGED notSignal

\* a RequestShutdown whose send waits for room in the buffer
RequestShutdownBlocking ==
    /\ proc = "running"
    /\ reqCalls < MaxRequests
    /\ shutdownHandler.nil \/ Len(shutdownHandler.buf) < ShutdownHandlerCap
    /\ reqCalls' = reqCalls + 1
    /\ IF ~shutdownHandler.nil
       THEN /\ shutdownHandler' = [shutdownHandler EXCEPT !.buf = Append(@, shutdownSignals[1])]
            /\ reqResult' = "true"
       ELSE /\ reqResult' = "false"
            /\ UNCHANGED shutdownHandler
    /\ UNCHANGED <<proc, exitCode, onlyOneSignalHandler, stop, setupPc, setupCalls, sigPc,
                   notified, sigsSent, received, stopCloses>>
    /\ UNCHANGED notSignal

\* RequestShutdown: a non-blocking send of shutdownSignals[0]
RequestShutdown ==
    /\ proc = "running"
    /\ reqCalls < MaxRequests
    /\ reqCalls' = reqCalls + 1
    /\ IF ~shutdownHandler.nil /\ Len(shutdownHandler.buf) < ShutdownHandlerCap
       THEN /\ shutdownHandler' = [shutdownHandler EXCEPT !.buf = Append(@, shutdownSignals[1])]
            /\ reqResult' = "true"
       ELSE /\ reqResult' = "false"
            /\ UNCHANGED shutdownHandler
    /\ UNCHANGED <<proc, exitCode, onlyOneSignalHandler, stop, setupPc, setupCalls, sigPc,
                   notified, sigsSent, received, stopCloses>>
    /\ UNCHANGED notSignal

\* a goroutine that exits as soon as a signal arrives
SigFirstExits ==
    /\ proc = "running"
    /\ sigPc = "first"
    /\ shutdownHandler.buf # <<>>
    /\ shutdownHandler' = [shutdownHandler EXCEPT !.buf = Tail(@)]
    /\ received' = received + 1
    /\ sigPc' = "exit"
    /\ UNCHANGED <<proc, exitCode, onlyOneSignalHandler, stop, setupPc, setupCalls, notified,
                   sigsSent, reqCalls, reqResult, stopCloses>>
    /\ UNCHANGED notSignal

\* <-shutdownHandler (the first)
SigFirst ==
    /\ proc = "running"
    /\ sigPc = "first"
    /\ shutdownHandler.buf # <<>>
    /\ shutdownHandler' = [shutdownHandler EXCEPT !.buf = Tail(@)]
    /\ received' = received + 1
    /\ sigPc' = "close"
    /\ UNCHANGED <<proc, exitCode, onlyOneSignalHandler, stop, setupPc, setupCalls, notified,
                   sigsSent, reqCalls, reqResult, stopCloses>>
    /\ UNCHANGED notSignal

\* close(stop): panics when stop is already closed
SigCloseStop ==
    /\ proc = "running"
    /\ sigPc = "close"
    /\ stopCloses' = stopCloses + 1
    /\ IF stop = "closed"
       THEN /\ proc' = "panicked"
            /\ UNCHANGED <<stop, sigPc>>
       ELSE /\ stop' = "closed"
            /\ sigPc' = "second"
            /\ UNCHANGED proc
    /\ UNCHANGED <<exitCode, onlyOneSignalHandler, shutdownHandler, setupPc, setupCalls,
                   notified, sigsSent, reqCalls, reqResult, received>>
    /\ UNCHANGED notSignal

\* a goroutine that closes stop on every signal
SigSecondClosesAgain ==
    /\ proc = "running"
    /\ sigPc = "second"
    /\ shutdownHandler.buf # <<>>
    /\ shutdownHandler' = [shutdownHandler EXCEPT !.buf = Tail(@)]
    /\ received' = received + 1
    /\ sigPc' = "close"
    /\ UNCHANGED <<proc, exitCode, onlyOneSignalHandler, stop, setupPc, setupCalls, notified,
                   sigsSent, reqCalls, reqResult, stopCloses>>
    /\ UNCHANGED notSignal

\* <-shutdownHandler (the second)
SigSecond ==
    /\ proc = "running"
    /\ sigPc = "second"
    /\ shutdownHandler.buf # <<>>
    /\ shutdownHandler' = [shutdownHandler EXCEPT !.buf = Tail(@)]
    /\ received' = received + 1
    /\ sigPc' = "exit"
    /\ UNCHANGED <<proc, exitCode, onlyOneSignalHandler, stop, setupPc, setupCalls, notified,
                   sigsSent, reqCalls, reqResult, stopCloses>>
    /\ UNCHANGED notSignal

\* os.Exit(1)
SigExit ==
    /\ proc = "running"
    /\ sigPc = "exit"
    /\ proc' = "exited"
    /\ exitCode' = 1
    /\ UNCHANGED <<onlyOneSignalHandler, shutdownHandler, stop, setupPc, setupCalls, sigPc,
                   notified, sigsSent, reqCalls, reqResult, received, stopCloses>>
    /\ UNCHANGED notSignal

SigGoroutine == SigFirst \/ SigCloseStop \/ SigSecond \/ SigExit

SignalNext ==
    \/ SetupCall
    \/ SetupGuard
    \/ SetupMake
    \/ SetupNotify
    \/ SetupGo
    \/ OsSignal
    \/ RequestShutdown
    \/ SigFirst
    \/ SigCloseStop
    \/ SigSecond
    \/ SigExit

-----------------------------------------------------------------------------
(* Claims about the signal handler *)

\* C9: no exit happens before the goroutine has taken two signals (the first
\* one alone only closes stop and leaves the process running); the only exit is
\* os.Exit(1); and a signal that reaches the handler while it is draining (stop
\* closed, waiting for the second signal) leads to that exit, unless the
\* process has panicked in between.
C9_GracefulThenForced ==
    /\ [](received < 2 => proc # "exited")
    /\ [](received = 1 /\ proc = "running" => sigPc \in {"close", "second"})
    /\ [](proc = "exited" => exitCode = 1 /\ received = 2 /\ stop = "closed")
    /\ ((sigPc = "second" /\ shutdownHandler.buf # <<>>) ~> (proc # "running"))

\* the process was forced out with status 1 after two signals
C9_Witness ==
    /\ proc = "exited"
    /\ exitCode = 1
    /\ received = 2
    /\ sigsSent >= 2

\* C10: stop is closed exactly once: not before the goroutine has taken its
\* first signal (an OS signal or a RequestShutdown), by the close that follows
\* it, and never again whatever signals or requests come later.
C10_StopClosedOnce ==
    /\ stopCloses <= 1
    /\ stop = "closed" <=> stopCloses = 1
    /\ received = 0 => stop # "closed"
    /\ received >= 1 /\ sigPc # "close" => stop = "closed"

\* stop was closed on a RequestShutdown, and a later signal was taken without
\* closing it again
C10_Witness ==
    /\ stop = "closed"
    /\ stopCloses = 1
    /\ received = 2
    /\ reqCalls >= 1
    /\ sigsSent >= 1
\* C12: the handler is installed once: the first call of SetupSignalHandler
\* arms it (guard closed, channels made, signals routed, goroutine started),
\* and a later call never gets past the guard, so that it makes no second stop
\* channel and installs no second handler; its close of the guard panics.
C12_InstalledOnce ==
    /\ [](setupCalls >= 2 => setupPc = "guard" /\ onlyOneSignalHandler = "closed")
    /\ [](setupCalls = 1 /\ setupPc = "idle" =>
             /\ onlyOneSignalHandler = "closed"
             /\ ~shutdownHandler.nil
             /\ stop # "none"
             /\ notified
             /\ sigPc # "none")
    /\ [][setupCalls >= 2 =>
             /\ notified' = notified
             /\ shutdownHandler'.nil = shutdownHandler.nil
             /\ stop' = "open" => stop = "open"
             /\ SetupGuard => proc' = "panicked"]_vars

\* a second call has panicked at the guard, with the first handler installed
C12_Witness ==
    /\ proc = "panicked"
    /\ setupCalls = 2
    /\ setupPc = "guard"
    /\ notified
    /\ stop = "open"

\* C13: RequestShutdown can always return at once; it returns true exactly
\* when a handler is installed and its channel has room, and then it has put
\* shutdownSignals[0] into the channel; otherwise it returns false and leaves
\* the channel as it was.
C13_RequestShutdownNeverBlocks ==
    /\ [](proc = "running" /\ reqCalls < MaxRequests => ENABLED RequestShutdown)
    /\ [][reqCalls' # reqCalls =>
             /\ reqResult' \in {"true", "false"}
             /\ reqResult' = "true" <=>
                   ~shutdownHandler.nil /\ Len(shutdownHandler.buf) < ShutdownHandlerCap
             /\ reqResult' = "true" =>
                   shutdownHandler' = [shutdownHandler EXCEPT
                                          !.buf = Append(@, shutdownSignals[1])]
             /\ reqResult' = "false" => shutdownHandler' = shutdownHandler]_vars

\* a request was dropped because the buffer held two signals: one from an
\* earlier request, one from the OS
C13_Witness ==
    /\ reqResult = "false"
    /\ reqCalls = 2
    /\ Len(shutdownHandler.buf) = ShutdownHandlerCap
    /\ sigsSent = 1
    /\ received = 0

-----------------------------------------------------------------------------
(* Loader: Start, DoReload, reloadLoop, reloadQueueLoop; the bus listener *)

NoticePolicyChanged == "PolicyChanged"

NoticeSecretChanged == "SecretChanged"

\* Notification.Sign: the hex digest of Command followed by Payload, without a
\* separator; the digest is kept as the text it was computed from
SignatureOf(command, payload) == "sha256:" \o command \o payload

\* the notifications the bus may carry: signed over the payload "p1", the
\* payload possibly replaced afterwards
Notifications ==
    {[kind |-> "notification", Command |-> c, Payload |-> pl, Signature |-> SignatureOf(c, "p1")] :
        c \in {NoticePolicyChanged, NoticeSecretChanged, "Unknown"}, pl \in {"p1", "p2"}}

NoEvent == [kind |-> "none", Command |-> "", Payload |-> "", Signature |-> ""]

\* what StartPubSubHandler may hand to the callback: a value that is no
\* *redis.Message, a message whose body does not unmarshal, or a notification
BusValues ==
    {[NoEvent EXCEPT !.kind = "other"], [NoEvent EXCEPT !.kind = "malformed"]} \cup Notifications

Callers == {"start", "loop"}

EmptySnapshot == [secrets |-> 0, policies |-> 0]

\* the generation a successful fetch brings: 0 is the empty cache, later
\* generations alternate between 1 and 2
NextGeneration(g) == IF g = 1 THEN 2 ELSE 1

LoadInit ==
    /\ ctxDone = FALSE
    /\ startPc = "idle"
    /\ psPc = "none"
    /\ ev = [v |-> NoEvent, handled |-> FALSE, reloaded |-> 0]
    /\ events = 0
    /\ handledCalls = 0
    /\ rqPc = "none"
    /\ rqFn = 0
    /\ requeue = <<>>
    /\ rlPc = "none"
    /\ rlCb = <<>>
    /\ rlIdx = 0
    /\ took = 0
    /\ invoked = <<>>
    /\ ticks = 0
    /\ drPc = [c \in Callers |-> "idle"]
    /\ drErr = [c \in Callers |-> FALSE]
    /\ drBefore = [c \in Callers |-> EmptySnapshot]
    /\ lock = "none"
    /\ cache = EmptySnapshot
    /\ observed = EmptySnapshot
    /\ windowCount = 0
    /\ cycleReloads = 0

\* Load.Start: go startPubSubLoop(); go l.reloadLoop(); go l.reloadQueueLoop();
\* then l.DoReload() is called
StartGo ==
    /\ startPc = "idle"
    /\ startPc' = "reload"
    /\ psPc' = "listen"
    /\ rlPc' = "select"
    /\ rqPc' = "select"
    /\ drPc' = [drPc EXCEPT !["start"] = "lock"]
    /\ UNCHANGED <<ctxDone, ev, events, handledCalls, rqFn, requeue, rlCb, rlIdx, took,
                   invoked, ticks, drErr, drBefore, lock, cache, observed, windowCount,
                   cycleReloads>>
    /\ UNCHANGED notLoad

\* the shutdown callback cancels the Loader's context
CtxCancel ==
    /\ startPc # "idle"
    /\ ~ctxDone
    /\ ctxDone' = TRUE
    /\ UNCHANGED <<startPc, psPc, ev, events, handledCalls, rqPc, rqFn, requeue, rlPc, rlCb,
                   rlIdx, took, invoked, ticks, drPc, drErr, drBefore, lock, cache, observed,
                   windowCount, cycleReloads>>
    /\ UNCHANGED notLoad

\* ---- DoReload

DoReloadWithoutLock(c) ==
    /\ drPc[c] = "lock"
    /\ drBefore' = [drBefore EXCEPT ![c] = cache]
    /\ drPc' = [drPc EXCEPT ![c] = "fetch"]
    /\ UNCHANGED <<ctxDone, startPc, psPc, ev, events, handledCalls, rqPc, rqFn, requeue, rlPc,
                   rlCb, rlIdx, took, invoked, ticks, drErr, lock, cache, observed,
                   windowCount, cycleReloads>>
    /\ UNCHANGED notLoad

\* a DoReload whose Lock does not wait for the holder of the lock
DoReloadLockNoWait(c) ==
    /\ drPc[c] = "lock"
    /\ lock' = c
    /\ drBefore' = [drBefore EXCEPT ![c] = cache]
    /\ drPc' = [drPc EXCEPT ![c] = "fetch"]
    /\ UNCHANGED <<ctxDone, startPc, psPc, ev, events, handledCalls, rqPc, rqFn, requeue, rlPc,
                   rlCb, rlIdx, took, invoked, ticks, drErr, cache, observed, windowCount,
                   cycleReloads>>
    /\ UNCHANGED notLoad

\* l.lock.Lock()
DoReloadLock(c) ==
    /\ drPc[c] = "lock"
    /\ lock = "none"
    /\ lock' = c
    /\ drBefore' = [drBefore EXCEPT ![c] = cache]
    /\ drPc' = [drPc EXCEPT ![c] = "fetch"]
    /\ UNCHANGED <<ctxDone, startPc, psPc, ev, events, handledCalls, rqPc, rqFn, requeue, rlPc,
                   rlCb, rlIdx, took, invoked, ticks, drErr, cache, observed, windowCount,
                   cycleReloads>>
    /\ UNCHANGED notLoad

\* store.Reload: the fetch of the complete current set from the remote store;
\* it fails, or yields the next generation of secrets and policies
StoreFetch(c) ==
    /\ drPc[c] = "fetch"
    /\ \E failed \in BOOLEAN :
          /\ drErr' = [drErr EXCEPT ![c] = failed]
          /\ drPc' = [drPc EXCEPT ![c] = IF failed THEN "log" ELSE "secrets"]
    /\ cycleReloads' = IF c = "loop" THEN cycleReloads + 1 ELSE cycleReloads
    /\ UNCHANGED <<ctxDone, startPc, psPc, ev, events, handledCalls, rqPc, rqFn, requeue, rlPc,
                   rlCb, rlIdx, took, invoked, ticks, drBefore, lock, cache, observed,
                   windowCount>>
    /\ UNCHANGED notLoad

\* store.Reload: the fetched secrets replace the cached ones
StoreReplaceSecrets(c) ==
    /\ drPc[c] = "secrets"
    /\ cache' = [cache EXCEPT !.secrets = NextGeneration(cache.policies)]
    /\ drPc' = [drPc EXCEPT ![c] = "policies"]
    /\ UNCHANGED <<ctxDone, startPc, psPc, ev, events, handledCalls, rqPc, rqFn, requeue, rlPc,
                   rlCb, rlIdx, took, invoked, ticks, drErr, drBefore, lock, observed,
                   windowCount, cycleReloads>>
    /\ UNCHANGED notLoad

\* store.Reload: the fetched policies replace the cached ones
StoreReplacePolicies(c) ==
    /\ drPc[c] = "policies"
    /\ cache' = [cache EXCEPT !.policies = cache.secrets]
    /\ drPc' = [drPc EXCEPT ![c] = "log"]
    /\ UNCHANGED <<ctxDone, startPc, psPc, ev, events, handledCalls, rqPc, rqFn, requeue, rlPc,
                   rlCb, rlIdx, took, invoked, ticks, drErr, drBefore, lock, observed,
                   windowCount, cycleReloads>>
    /\ UNCHANGED notLoad

\* a DoReload that gives up on a failed reload: its loop ends
DoReloadFatalOnError(c) ==
    /\ drPc[c] = "log"
    /\ lock' = IF lock = c THEN "none" ELSE lock
    /\ drBefore' = [drBefore EXCEPT ![c] = EmptySnapshot]
    /\ drPc' = [drPc EXCEPT ![c] = "idle"]
    /\ IF drErr[c]
       THEN /\ startPc' = IF c = "start" THEN "returned" ELSE startPc
            /\ rlPc' = IF c = "loop" THEN "exited" ELSE rlPc
       ELSE /\ startPc' = IF c = "start" THEN "returned" ELSE startPc
            /\ rlPc' = IF c = "loop" THEN "callbacks" ELSE rlPc
    /\ UNCHANGED <<ctxDone, psPc, ev, events, handledCalls, rqPc, rqFn, requeue, rlCb, rlIdx,
                   took, invoked, ticks, drErr, cache, observed, windowCount, cycleReloads>>
    /\ UNCHANGED notLoad

\* if err != nil { log.Errorf(...) }; the deferred l.lock.Unlock(); return
DoReloadReturn(c) ==
    /\ drPc[c] = "log"
    /\ lock' = IF lock = c THEN "none" ELSE lock
    /\ drBefore' = [drBefore EXCEPT ![c] = EmptySnapshot]
    /\ drPc' = [drPc EXCEPT ![c] = "idle"]
    /\ startPc' = IF c = "start" THEN "returned" ELSE startPc
    /\ rlPc' = IF c = "loop" THEN "callbacks" ELSE rlPc
    /\ UNCHANGED <<ctxDone, psPc, ev, events, handledCalls, rqPc, rqFn, requeue, rlCb, rlIdx,
                   took, invoked, ticks, drErr, cache, observed, windowCount, cycleReloads>>
    /\ UNCHANGED notLoad

\* a reader (Decision Engine or Secret Cache lookup): takes the read lock,
\* reads the snapshot, releases the lock
Read ==
    /\ startPc # "idle"
    /\ lock = "none"
    /\ observed' = cache
    /\ UNCHANGED <<ctxDone, startPc, psPc, ev, events, handledCalls, rqPc, rqFn, requeue, rlPc,
                   rlCb, rlIdx, took, invoked, ticks, drPc, drErr, drBefore, lock, cache,
                   windowCount, cycleReloads>>
    /\ UNCHANGED notLoad

\* ---- reloadLoop

\* case <-l.ctx.Done(): return
LoopCancelled ==
    /\ rlPc = "select"
    /\ ctxDone
    /\ rlPc' = "exited"
    /\ UNCHANGED <<ctxDone, startPc, psPc, ev, events, handledCalls, rqPc, rqFn, requeue, rlCb,
                   rlIdx, took, invoked, ticks, drPc, drErr, drBefore, lock, cache, observed,
                   windowCount, cycleReloads>>
    /\ UNCHANGED notLoad

\* a tick that takes only the oldest pending callback
LoopTickTakesOne ==
    /\ rlPc = "select"
    /\ ticks < MaxTicks
    /\ ticks' = ticks + 1
    /\ windowCount' = 0
    /\ cycleReloads' = 0
    /\ IF Len(requeue) = 0
       THEN /\ rlCb' = <<>>
            /\ took' = 0
            /\ UNCHANGED <<requeue, rlPc, rlIdx, drPc>>
       ELSE /\ rlCb' = <<Head(requeue)>>
            /\ took' = 1
            /\ requeue' = Tail(requeue)
            /\ rlIdx' = 0
            /\ rlPc' = "reload"
            /\ drPc' = [drPc EXCEPT !["loop"] = "lock"]
    /\ UNCHANGED <<ctxDone, startPc, psPc, ev, events, handledCalls, rqPc, rqFn, invoked,
                   drErr, drBefore, lock, cache, observed>>
    /\ UNCHANGED notLoad

\* case <-ticker.C: cb, ok := shouldReload(): under requeueLock, an empty
\* requeue gives (nil, false) and the loop continues; otherwise requeue is
\* taken whole and reset to empty, and l.DoReload() is called
LoopTick ==
    /\ rlPc = "select"
    /\ ticks < MaxTicks
    /\ ticks' = ticks + 1
    /\ windowCount' = 0
    /\ cycleReloads' = 0
    /\ IF Len(requeue) = 0
       THEN /\ rlCb' = <<>>
            /\ took' = 0
            /\ UNCHANGED <<requeue, rlPc, rlIdx, drPc>>
       ELSE /\ rlCb' = requeue
            /\ took' = Len(requeue)
            /\ requeue' = <<>>
            /\ rlIdx' = 0
            /\ rlPc' = "reload"
            /\ drPc' = [drPc EXCEPT !["loop"] = "lock"]
    /\ UNCHANGED <<ctxDone, startPc, psPc, ev, events, handledCalls, rqPc, rqFn, invoked,
                   drErr, drBefore, lock, cache, observed>>
    /\ UNCHANGED notLoad

\* a range over cb that goes from the last callback to the first
LoopCallbackBackwards ==
    /\ rlPc = "callbacks"
    /\ rlIdx < Len(rlCb)
    /\ rlIdx' = rlIdx + 1
    /\ invoked' = IF rlCb[Len(rlCb) - rlIdx] # 0
                  THEN Append(invoked, rlCb[Len(rlCb) - rlIdx])
                  ELSE invoked
    /\ UNCHANGED <<ctxDone, startPc, psPc, ev, events, handledCalls, rqPc, rqFn, requeue, rlPc,
                   rlCb, took, ticks, drPc, drErr, drBefore, lock, cache, observed,
                   windowCount, cycleReloads>>
    /\ UNCHANGED notLoad

\* for _, c := range cb { if c != nil { c() } }: one callback visited
LoopCallback ==
    /\ rlPc = "callbacks"
    /\ rlIdx < Len(rlCb)
    /\ rlIdx' = rlIdx + 1
    /\ invoked' = IF rlCb[rlIdx + 1] # 0 THEN Append(invoked, rlCb[rlIdx + 1]) ELSE invoked
    /\ UNCHANGED <<ctxDone, startPc, psPc, ev, events, handledCalls, rqPc, rqFn, requeue, rlPc,
                   rlCb, took, ticks, drPc, drErr, drBefore, lock, cache, observed,
                   windowCount, cycleReloads>>
    /\ UNCHANGED notLoad

\* the range is over (no complete callback is passed): back to the select;
\* cb is not read again before the next tick assigns it
LoopCycleDone ==
    /\ rlPc = "callbacks"
    /\ rlIdx = Len(rlCb)
    /\ rlPc' = "select"
    /\ rlCb' = <<>>
    /\ rlIdx' = 0
    /\ UNCHANGED <<ctxDone, startPc, psPc, ev, events, handledCalls, rqPc, rqFn, requeue, took,
                   invoked, ticks, drPc, drErr, drBefore, lock, cache, observed, windowCount,
                   cycleReloads>>
    /\ UNCHANGED notLoad

\* ---- reloadQueueLoop

\* case <-l.ctx.Done(): return
QueueCancelled ==
    /\ rqPc = "select"
    /\ ctxDone
    /\ rqPc' = "exited"
    /\ UNCHANGED <<ctxDone, startPc, psPc, ev, events, handledCalls, rqFn, requeue, rlPc, rlCb,
                   rlIdx, took, invoked, ticks, drPc, drErr, drBefore, lock, cache, observed,
                   windowCount, cycleReloads>>
    /\ UNCHANGED notLoad

\* case fn := <-reloadQueue: the unbuffered channel hands over the callback of
\* the sender blocked in handleRedisEvent, which goes on
QueueReceive ==
    /\ rqPc = "select"
    /\ psPc = "send"
    /\ rqFn' = ev.reloaded
    /\ rqPc' = "append"
    /\ psPc' = "sent"
    /\ UNCHANGED <<ctxDone, startPc, ev, events, handledCalls, requeue, rlPc, rlCb, rlIdx,
                   took, invoked, ticks, drPc, drErr, drBefore, lock, cache, observed,
                   windowCount, cycleReloads>>
    /\ UNCHANGED notLoad

\* a reloadQueueLoop that drops the callback while a reload cycle is running
QueueAppendOutsideCycle ==
    /\ rqPc = "append"
    /\ requeue' = IF rlPc = "select" THEN Append(requeue, rqFn) ELSE requeue
    /\ windowCount' = windowCount + 1
    /\ rqPc' = "select"
    /\ UNCHANGED <<ctxDone, startPc, psPc, ev, events, handledCalls, rqFn, rlPc, rlCb, rlIdx,
                   took, invoked, ticks, drPc, drErr, drBefore, lock, cache, observed,
                   cycleReloads>>
    /\ UNCHANGED notLoad

\* requeueLock.Lock(); requeue = append(requeue, fn); requeueLock.Unlock()
\* (no cb is passed by Start)
QueueAppend ==
    /\ rqPc = "append"
    /\ requeue' = Append(requeue, rqFn)
    /\ windowCount' = windowCount + 1
    /\ rqPc' = "select"
    /\ UNCHANGED <<ctxDone, startPc, psPc, ev, events, handledCalls, rqFn, rlPc, rlCb, rlIdx,
                   took, invoked, ticks, drPc, drErr, drBefore, lock, cache, observed,
                   cycleReloads>>
    /\ UNCHANGED notLoad

\* ---- startPubSubLoop and handleRedisEvent

Recognized(v) ==
    /\ v.kind = "notification"
    /\ v.Command \in {NoticePolicyChanged, NoticeSecretChanged}

\* a handleRedisEvent whose switch queues a reload for every command
HandleRedisEventQueuesAll ==
    /\ psPc = "listen"
    /\ events < MaxEvents
    /\ events' = events + 1
    /\ \E v \in BusValues, h \in BOOLEAN :
          IF v.kind = "notification"
          THEN /\ ev' = [v |-> v, handled |-> h, reloaded |-> IF h THEN events + 1 ELSE 0]
               /\ psPc' = "send"
          ELSE /\ ev' = [v |-> NoEvent, handled |-> FALSE, reloaded |-> 0]
               /\ psPc' = "listen"
    /\ UNCHANGED <<ctxDone, startPc, handledCalls, rqPc, rqFn, requeue, rlPc, rlCb, rlIdx,
                   took, invoked, ticks, drPc, drErr, drBefore, lock, cache, observed,
                   windowCount, cycleReloads>>
    /\ UNCHANGED notLoad

\* handleRedisEvent(v, handled, reloaded) up to its switch: a value that is no
\* bus message, a body that does not unmarshal and an unknown command return;
\* a recognized command reaches the send on reloadQueue. startPubSubLoop
\* passes nil for handled and for reloaded; a caller that passes callbacks
\* passes both, and reloaded is then named by the number of the event.
HandleRedisEvent ==
    /\ psPc = "listen"
    /\ events < MaxEvents
    /\ events' = events + 1
    /\ \E v \in BusValues, h \in BOOLEAN :
          IF Recognized(v)
          THEN /\ ev' = [v |-> v, handled |-> h, reloaded |-> IF h THEN events + 1 ELSE 0]
               /\ psPc' = "send"
          ELSE /\ ev' = [v |-> NoEvent, handled |-> FALSE, reloaded |-> 0]
               /\ psPc' = "listen"
    /\ UNCHANGED <<ctxDone, startPc, handledCalls, rqPc, rqFn, requeue, rlPc, rlCb, rlIdx,
                   took, invoked, ticks, drPc, drErr, drBefore, lock, cache, observed,
                   windowCount, cycleReloads>>
    /\ UNCHANGED notLoad

\* after the send: if handled != nil { handled(notif.Command) }; return
HandleRedisEventDone ==
    /\ psPc = "sent"
    /\ handledCalls' = IF ev.handled THEN handledCalls + 1 ELSE handledCalls
    /\ ev' = [v |-> NoEvent, handled |-> FALSE, reloaded |-> 0]
    /\ psPc' = "listen"
    /\ UNCHANGED <<ctxDone, startPc, events, rqPc, rqFn, requeue, rlPc, rlCb, rlIdx, took,
                   invoked, ticks, drPc, drErr, drBefore, lock, cache, observed, windowCount,
                   cycleReloads>>
    /\ UNCHANGED notLoad

\* StartPubSubHandler returns an error: time.Sleep(10 * time.Second)
PubSubError ==
    /\ psPc = "listen"
    /\ psPc' = "sleep"
    /\ UNCHANGED <<ctxDone, startPc, ev, events, handledCalls, rqPc, rqFn, requeue, rlPc, rlCb,
                   rlIdx, took, invoked, ticks, drPc, drErr, drBefore, lock, cache, observed,
                   windowCount, cycleReloads>>
    /\ UNCHANGED notLoad

\* the sleep is over: the loop subscribes again
PubSubReconnect ==
    /\ psPc = "sleep"
    /\ psPc' = "listen"
    /\ UNCHANGED <<ctxDone, startPc, ev, events, handledCalls, rqPc, rqFn, requeue, rlPc, rlCb,
                   rlIdx, took, invoked, ticks, drPc, drErr, drBefore, lock, cache, observed,
                   windowCount, cycleReloads>>
    /\ UNCHANGED notLoad

LoadNext ==
    \/ StartGo
    \/ CtxCancel
    \/ \E c \in Callers : DoReloadLock(c)
    \/ \E c \in Callers : StoreFetch(c)
    \/ \E c \in Callers : StoreReplaceSecrets(c)
    \/ \E c \in Callers : StoreReplacePolicies(c)
    \/ \E c \in Callers : DoReloadReturn(c)
    \/ Read
    \/ LoopCancelled
    \/ LoopTick
    \/ LoopCallback
    \/ LoopCycleDone
    \/ QueueCancelled
    \/ QueueReceive
    \/ QueueAppend
    \/ HandleRedisEvent
    \/ HandleRedisEventDone
    \/ PubSubError
    \/ PubSubReconnect

\* the steps of one call of DoReload
DoReloadStep(c) ==
    \/ DoReloadLock(c)
    \/ StoreFetch(c)
    \/ StoreReplaceSecrets(c)
    \/ StoreReplacePolicies(c)
    \/ DoReloadReturn(c)

\* the steps of the goroutine of reloadLoop
ReloadLoopStep ==
    \/ LoopCancelled
    \/ LoopTick
    \/ LoopCallback
    \/ LoopCycleDone
    \/ DoReloadStep("loop")

\* the steps of the goroutine of reloadQueueLoop
QueueLoopStep == QueueCancelled \/ QueueReceive \/ QueueAppend

\* the steps of the goroutine of startPubSubLoop
PubSubStep == HandleRedisEvent \/ HandleRedisEventDone \/ PubSubError \/ PubSubReconnect

-----------------------------------------------------------------------------
(* Decision audit pipeline: Start, Stop, RecordHit, recordWorker *)

Workers == 1..MaxPoolSize

Records == 1..MaxRecords

\* the Stop started by Start ("auto") and the Stop of the shutdown callback
Stoppers == {"auto", "callback"}

\* NewAnalytics: workerBufferSize := recordsBufferSize / uint64(ps)
workerBufferSize == recordsBufferSize \div poolSize

\* msgpack.Marshal(record); it does not fail for an AnalyticsRecord
Marshal(record) == <<"msgpack", record>>

AnalyticsInit ==
    /\ poolSize \in 1..MaxPoolSize
    /\ recordsBufferSize \in 0..MaxRecordsBufferSize
    /\ aPc = "idle"
    /\ aPanic = ""
    /\ shouldStop = 0
    /\ recordsChan = <<>>
    /\ chanClosed = FALSE
    /\ poolWg = 0
    /\ stopPc = [st \in Stoppers |-> "idle"]
    /\ returnedBefore = [st \in Stoppers |-> {}]
    /\ recPc = [i \in Records |-> "idle"]
    /\ wPc = [w \in Workers |-> "none"]
    /\ wBuf = [w \in Workers |-> <<>>]
    /\ wStale = [w \in Workers |-> FALSE]
    /\ sink = [w \in Workers |-> <<>>]

AnalyticsParked ==
    /\ poolSize = 1
    /\ recordsBufferSize = 1
    /\ aPc = "idle"
    /\ aPanic = ""
    /\ shouldStop = 0
    /\ recordsChan = <<>>
    /\ chanClosed = FALSE
    /\ poolWg = 0
    /\ stopPc = [st \in Stoppers |-> "idle"]
    /\ returnedBefore = [st \in Stoppers |-> {}]
    /\ recPc = [i \in Records |-> "idle"]
    /\ wPc = [w \in Workers |-> "none"]
    /\ wBuf = [w \in Workers |-> <<>>]
    /\ wStale = [w \in Workers |-> FALSE]
    /\ sink = [w \in Workers |-> <<>>]

\* the records whose RecordHit call has returned
Returned == {i \in Records : recPc[i] \in {"returned", "skipped"}}

\* Analytics.Start: shouldStop is set to 0, poolSize workers are started (each
\* after poolWg.Add(1)), and then: go r.Stop()
AnalyticsStart ==
    /\ aPc = "idle"
    /\ aPanic = ""
    /\ aPc' = "started"
    /\ shouldStop' = 0
    /\ wPc' = [w \in Workers |-> IF w <= poolSize THEN "select" ELSE "none"]
    /\ poolWg' = poolSize
    /\ stopPc' = [stopPc EXCEPT !["auto"] = "flag"]
    /\ returnedBefore' = [returnedBefore EXCEPT !["auto"] = Returned]
    /\ UNCHANGED <<poolSize, recordsBufferSize, aPanic, recordsChan, chanClosed, recPc, wBuf,
                   wStale, sink>>
    /\ UNCHANGED notAnalytics

\* the shutdown callback registered by the server calls analyticsIns.Stop()
CallbackStop ==
    /\ aPc = "started"
    /\ aPanic = ""
    /\ stopPc["callback"] = "idle"
    /\ stopPc' = [stopPc EXCEPT !["callback"] = "flag"]
    /\ returnedBefore' = [returnedBefore EXCEPT !["callback"] = Returned]
    /\ UNCHANGED <<poolSize, recordsBufferSize, aPc, aPanic, shouldStop, recordsChan,
                   chanClosed, poolWg, recPc, wPc, wBuf, wStale, sink>>
    /\ UNCHANGED notAnalytics

\* Stop: atomic.SwapUint32(&r.shouldStop, 1)
StopFlag(st) ==
    /\ aPanic = ""
    /\ stopPc[st] = "flag"
    /\ shouldStop' = 1
    /\ stopPc' = [stopPc EXCEPT ![st] = "close"]
    /\ UNCHANGED <<poolSize, recordsBufferSize, aPc, aPanic, recordsChan, chanClosed, poolWg,
                   returnedBefore, recPc, wPc, wBuf, wStale, sink>>
    /\ UNCHANGED notAnalytics

\* Stop: close(r.recordsChan); closing a closed channel panics
StopClose(st) ==
    /\ aPanic = ""
    /\ stopPc[st] = "close"
    /\ IF chanClosed
       THEN /\ aPanic' = "close of closed channel"
            /\ UNCHANGED <<chanClosed, stopPc>>
       ELSE /\ chanClosed' = TRUE
            /\ stopPc' = [stopPc EXCEPT ![st] = "wait"]
            /\ UNCHANGED aPanic
    /\ UNCHANGED <<poolSize, recordsBufferSize, aPc, shouldStop, recordsChan, poolWg,
                   returnedBefore, recPc, wPc, wBuf, wStale, sink>>
    /\ UNCHANGED notAnalytics

\* Stop: r.poolWg.Wait() returns once every worker is done
StopWait(st) ==
    /\ aPanic = ""
    /\ stopPc[st] = "wait"
    /\ poolWg = 0
    /\ stopPc' = [stopPc EXCEPT ![st] = "returned"]
    /\ UNCHANGED <<poolSize, recordsBufferSize, aPc, aPanic, shouldStop, recordsChan,
                   chanClosed, poolWg, returnedBefore, recPc, wPc, wBuf, wStale, sink>>
    /\ UNCHANGED notAnalytics

\* a RecordHit that does not look at shouldStop
RecordHitIgnoresStop(i) ==
    /\ aPc = "started"
    /\ aPanic = ""
    /\ recPc[i] = "idle"
    /\ \A j \in 1..(i - 1) : recPc[j] # "idle"
    /\ recPc' = [recPc EXCEPT ![i] = "send"]
    /\ UNCHANGED <<poolSize, recordsBufferSize, aPc, aPanic, shouldStop, recordsChan,
                   chanClosed, poolWg, stopPc, returnedBefore, wPc, wBuf, wStale, sink>>
    /\ UNCHANGED notAnalytics

\* RecordHit: if atomic.LoadUint32(&r.shouldStop) > 0 { return nil }
\* (records are numbered in the order in which their calls begin)
RecordHit(i) ==
    /\ aPc = "started"
    /\ aPanic = ""
    /\ recPc[i] = "idle"
    /\ \A j \in 1..(i - 1) : recPc[j] # "idle"
    /\ recPc' = [recPc EXCEPT ![i] = IF shouldStop > 0 THEN "skipped" ELSE "send"]
    /\ UNCHANGED <<poolSize, recordsBufferSize, aPc, aPanic, shouldStop, recordsChan,
                   chanClosed, poolWg, stopPc, returnedBefore, wPc, wBuf, wStale, sink>>
    /\ UNCHANGED notAnalytics

\* whether the send of RecordHit can go through now: the channel is closed
\* (the send panics), has room, or a worker is waiting to receive
CanSend == chanClosed \/ Len(recordsChan) < recordsBufferSize

\* RecordHit: r.recordsChan <- record; return nil. The send waits while the
\* buffer is full, and panics on a closed channel.
RecordSend(i) ==
    /\ aPanic = ""
    /\ recPc[i] = "send"
    /\ CanSend
    /\ IF chanClosed
       THEN /\ aPanic' = "send on closed channel"
            /\ UNCHANGED <<recordsChan, recPc>>
       ELSE /\ recordsChan' = Append(recordsChan, i)
            /\ recPc' = [recPc EXCEPT ![i] = "returned"]
            /\ UNCHANGED aPanic
    /\ UNCHANGED <<poolSize, recordsBufferSize, aPc, shouldStop, chanClosed, poolWg, stopPc,
                   returnedBefore, wPc, wBuf, wStale, sink>>
    /\ UNCHANGED notAnalytics

\* a flush that sends the buffer and does not reset it
FlushKeepingBuffer(w, buffer, readyToSend, forced) ==
    /\ wBuf' = [wBuf EXCEPT ![w] = buffer]
    /\ IF Len(buffer) > 0 /\ (readyToSend \/ forced)
       THEN /\ sink' = [sink EXCEPT ![w] = @ \o buffer]
            /\ wStale' = [wStale EXCEPT ![w] = FALSE]
       ELSE UNCHANGED <<sink, wStale>>

\* the decoding of what Marshal produced
Unmarshal(encoded) == encoded[2]

\* recordWorker that hands its buffer to the sink newest record first
FlushNewestFirst(w, buffer, readyToSend, forced) ==
    IF Len(buffer) > 0 /\ (readyToSend \/ forced)
    THEN /\ sink' = [sink EXCEPT ![w] = @ \o [k \in 1..Len(buffer) |-> buffer[Len(buffer) + 1 - k]]]
         /\ wBuf' = [wBuf EXCEPT ![w] = <<>>]
         /\ wStale' = [wStale EXCEPT ![w] = FALSE]
    ELSE /\ wBuf' = [wBuf EXCEPT ![w] = buffer]
         /\ UNCHANGED <<sink, wStale>>

\* recordWorker, after the select: a non-empty buffer is sent and reset, and
\* lastSentTS set to now, when readyToSend holds or when the forced flush
\* interval has passed since the last send (forced)
Flush(w, buffer, readyToSend, forced) ==
    IF Len(buffer) > 0 /\ (readyToSend \/ forced)
    THEN /\ sink' = [sink EXCEPT ![w] = @ \o buffer]
         /\ wBuf' = [wBuf EXCEPT ![w] = <<>>]
         /\ wStale' = [wStale EXCEPT ![w] = FALSE]
    ELSE /\ wBuf' = [wBuf EXCEPT ![w] = buffer]
         /\ UNCHANGED <<sink, wStale>>

\* time passes: the forced flush interval has gone by since the worker's
\* last send (or since its start)
ForcedIntervalPasses(w) ==
    /\ aPanic = ""
    /\ wPc[w] = "select"
    /\ ~wStale[w]
    /\ wStale' = [wStale EXCEPT ![w] = TRUE]
    /\ UNCHANGED <<poolSize, recordsBufferSize, aPc, aPanic, shouldStop, recordsChan,
                   chanClosed, poolWg, stopPc, returnedBefore, recPc, wPc, wBuf, sink>>
    /\ UNCHANGED notAnalytics

\* a receive that leaves the record in the queue for another receive
WorkerReceiveLeavesHead(w) ==
    /\ aPanic = ""
    /\ wPc[w] = "select"
    /\ recordsChan # <<>>
    /\ recordsChan' = recordsChan
    /\ LET buffer == Append(wBuf[w], Marshal(Head(recordsChan)))
       IN  Flush(w, buffer, Len(buffer) = workerBufferSize, wStale[w])
    /\ UNCHANGED <<poolSize, recordsBufferSize, aPc, aPanic, shouldStop, chanClosed, poolWg,
                   stopPc, returnedBefore, recPc, wPc>>
    /\ UNCHANGED notAnalytics

\* recordWorker: case record, ok := <-r.recordsChan with ok: the record is
\* encoded and appended, readyToSend says whether the buffer is full
WorkerReceive(w) ==
    /\ aPanic = ""
    /\ wPc[w] = "select"
    /\ recordsChan # <<>>
    /\ recordsChan' = Tail(recordsChan)
    /\ LET buffer == Append(wBuf[w], Marshal(Head(recordsChan)))
       IN  Flush(w, buffer, Len(buffer) = workerBufferSize, wStale[w])
    /\ UNCHANGED <<poolSize, recordsBufferSize, aPc, aPanic, shouldStop, chanClosed, poolWg,
                   stopPc, returnedBefore, recPc, wPc>>
    /\ UNCHANGED notAnalytics

\* the same receive on a channel without buffer: the record comes straight
\* from a RecordHit waiting in its send, which returns
WorkerReceiveDirect(w) ==
    /\ aPanic = ""
    /\ wPc[w] = "select"
    /\ recordsBufferSize = 0
    /\ ~chanClosed
    /\ \E i \in Records :
          /\ recPc[i] = "send"
          /\ recPc' = [recPc EXCEPT ![i] = "returned"]
          /\ LET buffer == Append(wBuf[w], Marshal(i))
             IN  Flush(w, buffer, Len(buffer) = workerBufferSize, wStale[w])
    /\ UNCHANGED <<poolSize, recordsBufferSize, aPc, aPanic, shouldStop, recordsChan,
                   chanClosed, poolWg, stopPc, returnedBefore, wPc>>
    /\ UNCHANGED notAnalytics

\* recordWorker: the receive with !ok (channel closed and drained): what is
\* left in the buffer is sent, the worker returns and poolWg.Done() runs
WorkerClosed(w) ==
    /\ aPanic = ""
    /\ wPc[w] = "select"
    /\ chanClosed
    /\ recordsChan = <<>>
    /\ sink' = [sink EXCEPT ![w] = @ \o wBuf[w]]
    /\ poolWg' = poolWg - 1
    /\ wPc' = [wPc EXCEPT ![w] = "exited"]
    /\ wStale' = [wStale EXCEPT ![w] = FALSE]
    /\ UNCHANGED <<poolSize, recordsBufferSize, aPc, aPanic, shouldStop, recordsChan,
                   chanClosed, stopPc, returnedBefore, recPc, wBuf>>
    /\ UNCHANGED notAnalytics

\* recordWorker whose idle timeout leaves readyToSend false
WorkerTimeoutNotReady(w) ==
    /\ aPanic = ""
    /\ wPc[w] = "select"
    /\ wBuf[w] # <<>>
    /\ Flush(w, wBuf[w], FALSE, wStale[w])
    /\ UNCHANGED <<poolSize, recordsBufferSize, aPc, aPanic, shouldStop, recordsChan,
                   chanClosed, poolWg, stopPc, returnedBefore, recPc, wPc>>
    /\ UNCHANGED notAnalytics

\* recordWorker: case <-time.After(flush interval): readyToSend = true
WorkerTimeout(w) ==
    /\ aPanic = ""
    /\ wPc[w] = "select"
    /\ wBuf[w] # <<>>
    /\ Flush(w, wBuf[w], TRUE, wStale[w])
    /\ UNCHANGED <<poolSize, recordsBufferSize, aPc, aPanic, shouldStop, recordsChan,
                   chanClosed, poolWg, stopPc, returnedBefore, recPc, wPc>>
    /\ UNCHANGED notAnalytics

AnalyticsNext ==
    \/ AnalyticsStart
    \/ CallbackStop
    \/ \E st \in Stoppers : StopFlag(st)
    \/ \E st \in Stoppers : StopClose(st)
    \/ \E st \in Stoppers : StopWait(st)
    \/ \E i \in Records : RecordHit(i)
    \/ \E i \in Records : RecordSend(i)
    \/ \E w \in Workers : WorkerReceive(w)
    \/ \E w \in Workers : WorkerReceiveDirect(w)
    \/ \E w \in Workers : WorkerClosed(w)
    \/ \E w \in Workers : WorkerTimeout(w)
    \/ \E w \in Workers : ForcedIntervalPasses(w)

-----------------------------------------------------------------------------
(* Authorization server: PrepareRun, initialize, shutdown callbacks *)

CbAnalyticsStop == "analyticsIns.Stop"

CbCancel == "cancel"

CbClose == "genericAPIServer.Close"

ServerInit ==
    /\ analyticsEnable \in BOOLEAN
    /\ initFails \in BOOLEAN
    /\ srvPc = "initialize"
    /\ callbacks = <<>>
    /\ gsPc = "armed"
    /\ gsIdx = 0
    /\ ran = <<>>
    /\ apiClosed = FALSE

ServerParked ==
    /\ analyticsEnable = TRUE
    /\ initFails = FALSE
    /\ srvPc = "initialize"
    /\ callbacks = <<>>
    /\ gsPc = "armed"
    /\ gsIdx = 0
    /\ ran = <<>>
    /\ apiClosed = FALSE

\* initialize: store.GetStoreInsOr; on error initialize returns, and
\* PrepareRun goes on (_ = s.initialize())
SrvInitialize ==
    /\ aPanic = ""
    /\ srvPc = "initialize"
    /\ srvPc' = IF initFails THEN "register_close" ELSE "loader"
    /\ UNCHANGED <<analyticsEnable, initFails, callbacks, gsPc, gsIdx, ran, apiClosed>>
    /\ UNCHANGED notServer

\* initialize: load.NewLoader(ctx, storeIns).Start()
SrvLoaderStart ==
    /\ aPanic = ""
    /\ srvPc = "loader"
    /\ StartGo

\* the DoReload that Load.Start calls
SrvLoaderReload ==
    /\ aPanic = ""
    /\ srvPc = "loader"
    /\ \/ DoReloadLock("start")
       \/ StoreFetch("start")
       \/ StoreReplaceSecrets("start")
       \/ StoreReplacePolicies("start")
       \/ DoReloadReturn("start")

\* Load.Start has returned
SrvLoaderStarted ==
    /\ aPanic = ""
    /\ srvPc = "loader"
    /\ startPc = "returned"
    /\ srvPc' = "analytics"
    /\ UNCHANGED <<analyticsEnable, initFails, callbacks, gsPc, gsIdx, ran, apiClosed>>
    /\ UNCHANGED notServer

\* initialize: if s.analyticsOptions.Enable { ... analyticsIns.Start()
SrvAnalyticsStart ==
    /\ srvPc = "analytics"
    /\ analyticsEnable
    /\ AnalyticsStart

\* initialize: s.gs.AddShutdownCallback(analyticsIns.Stop), inside the if
SrvRegisterStop ==
    /\ aPanic = ""
    /\ srvPc = "analytics"
    /\ analyticsEnable => aPc = "started"
    /\ callbacks' = IF analyticsEnable THEN Append(callbacks, CbAnalyticsStop) ELSE callbacks
    /\ srvPc' = "register_cancel"
    /\ UNCHANGED <<analyticsEnable, initFails, gsPc, gsIdx, ran, apiClosed>>
    /\ UNCHANGED notServer

\* initialize: s.gs.AddShutdownCallback(cancel); return nil
SrvRegisterCancel ==
    /\ aPanic = ""
    /\ srvPc = "register_cancel"
    /\ callbacks' = Append(callbacks, CbCancel)
    /\ srvPc' = "register_close"
    /\ UNCHANGED <<analyticsEnable, initFails, gsPc, gsIdx, ran, apiClosed>>
    /\ UNCHANGED notServer

\* PrepareRun: s.gs.AddShutdownCallback(s.genericAPIServer.Close)
SrvRegisterClose ==
    /\ aPanic = ""
    /\ srvPc = "register_close"
    /\ callbacks' = Append(callbacks, CbClose)
    /\ srvPc' = "prepared"
    /\ UNCHANGED <<analyticsEnable, initFails, gsPc, gsIdx, ran, apiClosed>>
    /\ UNCHANGED notServer

\* the coordinator takes the first termination signal or shutdown request
GsShutdown ==
    /\ aPanic = ""
    /\ srvPc = "prepared"
    /\ gsPc = "armed"
    /\ gsPc' = "draining"
    /\ gsIdx' = 1
    /\ UNCHANGED <<analyticsEnable, initFails, srvPc, callbacks, ran, apiClosed>>
    /\ UNCHANGED notServer

\* whether the coordinator is at callback cb
GsAt(cb) == gsPc = "draining" /\ gsIdx <= Len(callbacks) /\ callbacks[gsIdx] = cb

\* the coordinator calls the callback that calls analyticsIns.Stop()
GsCallStop ==
    /\ GsAt(CbAnalyticsStop)
    /\ CallbackStop

\* analyticsIns.Stop() has returned, the callback returns nil
GsStopReturned ==
    /\ aPanic = ""
    /\ GsAt(CbAnalyticsStop)
    /\ stopPc["callback"] = "returned"
    /\ ran' = Append(ran, CbAnalyticsStop)
    /\ gsIdx' = gsIdx + 1
    /\ UNCHANGED <<analyticsEnable, initFails, srvPc, callbacks, gsPc, apiClosed>>
    /\ UNCHANGED notServer

\* the coordinator calls the callback that calls cancel()
GsCallCancel ==
    /\ aPanic = ""
    /\ GsAt(CbCancel)
    /\ CtxCancel

\* cancel() has returned, the callback returns nil
GsCancelReturned ==
    /\ aPanic = ""
    /\ GsAt(CbCancel)
    /\ ctxDone
    /\ ran' = Append(ran, CbCancel)
    /\ gsIdx' = gsIdx + 1
    /\ UNCHANGED <<analyticsEnable, initFails, srvPc, callbacks, gsPc, apiClosed>>
    /\ UNCHANGED notServer

\* the callback that calls s.genericAPIServer.Close() and returns nil
GsClose ==
    /\ aPanic = ""
    /\ GsAt(CbClose)
    /\ apiClosed' = TRUE
    /\ ran' = Append(ran, CbClose)
    /\ gsIdx' = gsIdx + 1
    /\ UNCHANGED <<analyticsEnable, initFails, srvPc, callbacks, gsPc>>
    /\ UNCHANGED notServer

\* every callback has been run
GsDone ==
    /\ aPanic = ""
    /\ gsPc = "draining"
    /\ gsIdx > Len(callbacks)
    /\ gsPc' = "done"
    /\ UNCHANGED <<analyticsEnable, initFails, srvPc, callbacks, gsIdx, ran, apiClosed>>
    /\ UNCHANGED notServer

ServerNext ==
    \/ SrvInitialize
    \/ SrvLoaderStart
    \/ SrvLoaderReload
    \/ SrvLoaderStarted
    \/ SrvAnalyticsStart
    \/ SrvRegisterStop
    \/ SrvRegisterCancel
    \/ SrvRegisterClose
    \/ GsShutdown
    \/ GsCallStop
    \/ GsStopReturned
    \/ GsCallCancel
    \/ GsCancelReturned
    \/ GsClose
    \/ GsDone
    \/ \E st \in Stoppers : StopFlag(st)
    \/ \E st \in Stoppers : StopClose(st)
    \/ \E st \in Stoppers : StopWait(st)
    \/ \E w \in Workers : WorkerClosed(w)

-----------------------------------------------------------------------------
(* Authentication middleware: CacheStrategy.AuthFunc, KeyExpired *)

\* the part of time.Now() below a second: zero or not
SubSecond == {0, 1}

Times == [sec : 0..MaxNow, nsec : SubSecond]

\* time.Unix(sec, 0)
Unix(sec) == [sec |-> sec, nsec |-> 0]

\* t.After(u)
After(t, u) == t.sec > u.sec \/ (t.sec = u.sec /\ t.nsec > u.nsec)

\* Secret.Expires of the cached secret: unset (0), negative, or a time
ExpiresValues == (0 - 1)..(MaxNow + 1)

\* a KeyExpired that counts the very instant of expiry as expired
KeyExpiredInclusive(expires) ==
    IF expires >= 1
    THEN ~After(Unix(expires), tNow)
    ELSE FALSE

\* KeyExpired: if expires >= 1 { return time.Now().After(time.Unix(expires, 0)) }
\* return false
KeyExpired(expires) ==
    IF expires >= 1
    THEN After(tNow, Unix(expires))
    ELSE FALSE

ErrMissingKID == "Invalid token format: missing kid field in claims"

ErrMissingSecret == "Can not obtain secret information from cache"

NoSecret == [Username |-> "", ID |-> "", Key |-> "", Expires |-> 0]

\* cache.get(kid): the cache holds one secret, under the key id "k1"
CacheGet(kid) ==
    IF kid = "k1"
    THEN [err |-> FALSE,
          secret |-> [Username |-> "alice", ID |-> "k1", Key |-> "key1",
                      Expires |-> secretExpires]]
    ELSE [err |-> TRUE, secret |-> NoSecret]

\* the tokens of the requests: whether the three segments parse, the alg and
\* the kid of the header ("": none), the key the signature was made with, and
\* whether the claims (audience, exp, nbf) are valid
Tokens ==
    [wellFormed : BOOLEAN, alg : {"HS256", "RS256"}, kid : {"", "k1", "k2"},
     signedWith : {"key1", "key9"}, claimsValid : BOOLEAN]

NoResponseWritten == [code |-> "", message |-> "", aborted |-> FALSE]

AuthnInit ==
    /\ tNow \in Times
    /\ hasHeader \in BOOLEAN
    /\ token \in Tokens
    /\ secretExpires \in ExpiresValues
    /\ afPc = "header"
    /\ afSecret = NoSecret
    /\ afErr = ""
    /\ afExpired = FALSE
    /\ afRsp = NoResponseWritten
    /\ afUsername = ""
    /\ afNext = FALSE

AuthnParked ==
    /\ tNow = [sec |-> 0, nsec |-> 0]
    /\ hasHeader = FALSE
    /\ token = [wellFormed |-> FALSE, alg |-> "HS256", kid |-> "", signedWith |-> "key1",
                claimsValid |-> FALSE]
    /\ secretExpires = 0
    /\ afPc = "header"
    /\ afSecret = NoSecret
    /\ afErr = ""
    /\ afExpired = FALSE
    /\ afRsp = NoResponseWritten
    /\ afUsername = ""
    /\ afNext = FALSE

\* header := c.Request.Header.Get("Authorization"); an empty header is
\* answered with code.ErrMissingHeader and the request is aborted
AuthHeader ==
    /\ afPc = "header"
    /\ IF hasHeader
       THEN /\ afPc' = "parse"
            /\ UNCHANGED afRsp
       ELSE /\ afRsp' = [code |-> "ErrMissingHeader",
                         message |-> "Authorization header cannot be empty.",
                         aborted |-> TRUE]
            /\ afPc' = "done"
    /\ UNCHANGED <<tNow, hasHeader, token, secretExpires, afSecret, afErr, afExpired,
                   afUsername, afNext>>
    /\ UNCHANGED notAuthn

\* the key function passed to jwt.ParseWithClaims: the alg must be HMAC, the
\* header must have a kid, and cache.get(kid) must find the secret, which is
\* assigned to the variable secret of the handler (also when get fails)
KeyFunc(t) ==
    IF t.alg # "HS256"
    THEN [err |-> "unexpected signing method: " \o t.alg, key |-> "", called |-> FALSE]
    ELSE IF t.kid = ""
    THEN [err |-> ErrMissingKID, key |-> "", called |-> FALSE]
    ELSE IF CacheGet(t.kid).err
    THEN [err |-> ErrMissingSecret, key |-> "", called |-> TRUE]
    ELSE [err |-> "", key |-> CacheGet(t.kid).secret.Key, called |-> TRUE]

\* jwt.ParseWithClaims(rawJWT, claims, keyFunc, jwt.WithAudience(...)): the
\* error it returns ("": nil, and then the token is valid)
ParseWithClaims(t) ==
    IF ~t.wellFormed THEN "token is malformed"
    ELSE IF KeyFunc(t).err # "" THEN KeyFunc(t).err
    ELSE IF t.signedWith # KeyFunc(t).key THEN "signature is invalid"
    ELSE IF ~t.claimsValid THEN "token claims are invalid"
    ELSE ""

\* parsedT, err := jwt.ParseWithClaims(...); if err != nil || !parsedT.Valid:
\* the response carries code.ErrSignatureInvalid and err.Error(), and the
\* request is aborted
AuthParse ==
    /\ afPc = "parse"
    /\ afErr' = ParseWithClaims(token)
    /\ afSecret' = IF token.wellFormed /\ KeyFunc(token).called
                   THEN CacheGet(token.kid).secret
                   ELSE afSecret
    /\ IF ParseWithClaims(token) # ""
       THEN /\ afRsp' = [code |-> "ErrSignatureInvalid", message |-> ParseWithClaims(token),
                         aborted |-> TRUE]
            /\ afPc' = "done"
       ELSE /\ afPc' = "expiry"
            /\ UNCHANGED afRsp
    /\ UNCHANGED <<tNow, hasHeader, token, secretExpires, afExpired, afUsername, afNext>>
    /\ UNCHANGED notAuthn

\* an AuthFunc that sets the username before it looks at the expiry
AuthExpirySetsFirst ==
    /\ afPc = "expiry"
    /\ afExpired' = KeyExpired(afSecret.Expires)
    /\ afUsername' = afSecret.Username
    /\ IF KeyExpired(afSecret.Expires)
       THEN /\ afRsp' = [code |-> "ErrExpired", message |-> "expired", aborted |-> TRUE]
            /\ afPc' = "done"
       ELSE /\ afPc' = "bind"
            /\ UNCHANGED afRsp
    /\ UNCHANGED <<tNow, hasHeader, token, secretExpires, afSecret, afErr, afNext>>
    /\ UNCHANGED notAuthn

\* if KeyExpired(secret.Expires): code.ErrExpired, abort
AuthExpiry ==
    /\ afPc = "expiry"
    /\ afExpired' = KeyExpired(afSecret.Expires)
    /\ IF KeyExpired(afSecret.Expires)
       THEN /\ afRsp' = [code |-> "ErrExpired", message |-> "expired", aborted |-> TRUE]
            /\ afPc' = "done"
       ELSE /\ afPc' = "bind"
            /\ UNCHANGED afRsp
    /\ UNCHANGED <<tNow, hasHeader, token, secretExpires, afSecret, afErr, afUsername, afNext>>
    /\ UNCHANGED notAuthn

\* c.Set(middleware.UsernameKey, secret.Username); c.Next()
AuthBind ==
    /\ afPc = "bind"
    /\ afUsername' = afSecret.Username
    /\ afNext' = TRUE
    /\ afPc' = "done"
    /\ UNCHANGED <<tNow, hasHeader, token, secretExpires, afSecret, afErr, afExpired, afRsp>>
    /\ UNCHANGED notAuthn

AuthnNext ==
    \/ AuthHeader
    \/ AuthParse
    \/ AuthExpiry
    \/ AuthBind

-----------------------------------------------------------------------------
(* Claims about the Loader and the bus listener *)

\* C2: a notification that handleRedisEvent passes on to reloadQueue carries
\* the signature of its own Command and Payload: one whose signature does not
\* match is rejected and produces no reload request.
C2_ForgedNotificationRejected ==
    psPc \in {"send", "sent"} => ev.v.Signature = SignatureOf(ev.v.Command, ev.v.Payload)

\* C3: every tick takes all the callbacks appended since the tick before, so
\* that what is pending is only what arrived in the current window; the cycle
\* of a tick that took N >= 1 callbacks makes exactly one store reload, and
\* the cycle of a tick that found nothing pending makes none.
C3_Debounce ==
    /\ Len(requeue) = windowCount
    /\ cycleReloads <= 1
    /\ rlPc = "callbacks" => took >= 1 /\ cycleReloads = 1
    /\ rlPc = "select" /\ ticks > 0 => cycleReloads = (IF took >= 1 THEN 1 ELSE 0)
    /\ rlPc = "select" /\ ticks > 0 /\ took = 0 => drPc["loop"] = "idle"

\* two notifications of one window were served by one reload
C3_Witness ==
    /\ rlPc = "select"
    /\ took >= 2
    /\ cycleReloads = 1
    /\ requeue = <<>>

C8_FetchErrorKeepsSnapshot ==
    /\ \A c \in Callers : drPc[c] = "log" /\ drErr[c] => cache = drBefore[c]
    /\ rlPc = "exited" => ctxDone
    /\ rqPc = "exited" => ctxDone

\* a reload of the loop failed with a populated cache, which was kept
C8_Witness ==
    /\ drPc["loop"] = "log"
    /\ drErr["loop"]
    /\ cache = [secrets |-> 1, policies |-> 1]
    /\ cache = drBefore["loop"]

\* C16: the initial reload of Start is over before any loop does anything: as
\* long as Start has not returned no notification has been handled, nothing
\* was queued, no tick was served and the loop has started no reload; and the
\* cache is populated once Start has returned.
C16_InitialReloadBeforeLoops ==
    /\ startPc # "returned" =>
          /\ events = 0
          /\ psPc \in {"none", "listen", "sleep"}
          /\ requeue = <<>>
          /\ ticks = 0
          /\ drPc["loop"] = "idle"
    /\ startPc = "returned" => cache # EmptySnapshot

\* C17: once the Loader's context is cancelled, reloadLoop, reloadQueueLoop
\* and the bus listener all come to their exit.
C17_CancelStopsLoops ==
    ctxDone ~> (rlPc = "exited" /\ rqPc = "exited" /\ psPc = "exited")

\* C20: only a notification with the command PolicyChanged or SecretChanged
\* gets to the send on reloadQueue; handling any other value (no bus message,
\* a body that does not unmarshal, an unknown command) leaves the pending
\* list, the queue loop, the reloads, the cache and the count of handled
\* callbacks as they were.
C20_UnknownDropped ==
    /\ [](psPc \in {"send", "sent"} =>
             /\ ev.v.kind = "notification"
             /\ ev.v.Command \in {NoticePolicyChanged, NoticeSecretChanged})
    /\ [][HandleRedisEvent /\ psPc' = "listen" =>
             UNCHANGED <<requeue, windowCount, rqPc, rqFn, rlPc, rlCb, drPc, lock, cache,
                         cycleReloads, invoked, handledCalls>>]_vars

\* one value was handled and dropped: nothing was queued, the listener is
\* back at its subscription
C20_Witness ==
    /\ events = 1
    /\ psPc = "listen"
    /\ rqPc = "select"
    /\ requeue = <<>>
    /\ windowCount = 0
    /\ ticks = 0
    /\ handledCalls = 0

\* the non-nil callbacks that wait to be invoked: received by the queue loop,
\* pending in requeue, or taken by the current cycle and not yet visited
Waiting ==
    {rqFn : x \in (IF rqPc = "append" /\ rqFn # 0 THEN {1} ELSE {})}
        \cup {requeue[k] : k \in {j \in 1..Len(requeue) : requeue[j] # 0}}
        \cup {rlCb[k] : k \in {j \in (rlIdx + 1)..Len(rlCb) : rlCb[j] # 0}}

Invoked == {invoked[k] : k \in 1..Len(invoked)}

Reloading == {c \in Callers : drPc[c] \in {"fetch", "secrets", "policies"}}

\* C30: at most one store Reload executes at any time: the DoReload of Start
\* and those of reloadLoop exclude each other under the lock of the Loader,
\* a caller enters Reload only as the holder of the lock, while no other
\* caller is inside
C30_OneReloadAtATime ==
    /\ [](Cardinality(Reloading) <= 1)
    /\ [](\A c \in Reloading : lock = c)
    /\ [][\A c \in Callers :
            c \in Reloading' /\ c \notin Reloading =>
                Reloading = {} /\ lock = "none" /\ lock' = c]_vars

\* reloadLoop is inside Reload while the DoReload of Start waits for the lock
C30_Witness ==
    /\ drPc["loop"] = "secrets"
    /\ drPc["start"] = "lock"
    /\ lock = "loop"
    /\ startPc = "reload"

\* C31: no change notification is lost while the context is live. A
\* recognized notification accepted by handleRedisEvent is handed to
\* reloadQueueLoop and appended to requeue; what is in requeue leaves it only
\* by a tick that takes the whole list and goes on to DoReload, which
\* happens on the next tick served (while ticks remain); and the DoReload of
\* that tick gets the lock and runs Reload, even when the entry was appended
\* while another Reload was in progress or between the swap and the Reload
\* of the running cycle
C31_NoNotificationLost ==
    /\ (psPc = "send") ~> (psPc = "sent" \/ ctxDone)
    /\ [][rqPc = "append" /\ rqPc' # "append" => requeue' = Append(requeue, rqFn)]_vars
    /\ [][requeue' # requeue =>
            \/ rqPc = "append" /\ requeue' = Append(requeue, rqFn)
            \/ /\ rlPc = "select"
               /\ requeue' = <<>>
               /\ rlCb' = requeue
               /\ rlPc' = "reload"
               /\ drPc'["loop"] = "lock"]_vars
    /\ (requeue # <<>>) ~> (requeue = <<>> \/ ctxDone \/ ticks = MaxTicks)
    /\ (drPc["loop"] = "lock") ~> (drPc["loop"] = "fetch")

\* a notification was appended after the swap of the running cycle, while
\* that cycle's Reload is in progress and the context is live
C31_Witness ==
    /\ ~ctxDone
    /\ ticks = 1
    /\ rlPc = "reload"
    /\ drPc["loop"] = "secrets"
    /\ lock = "loop"
    /\ requeue # <<>>
    /\ windowCount = 1

\* C32: the hand-off of a recognized notification into the unbuffered
\* reloadQueue always completes: handleRedisEvent, once at its send, gets
\* past it, also after the context has been cancelled and reloadQueueLoop
\* has exited
C32_HandOffCompletes == (psPc = "send") ~> (psPc # "send")

-----------------------------------------------------------------------------
(* Claims about the decision audit pipeline *)

\* what the workers have passed to AppendToSetPipelined
Written == UNION {{sink[w][k] : k \in 1..Len(sink[w])} : w \in Workers}

\* C4: once a call of Stop has returned, every record whose RecordHit had
\* returned before that call of Stop began has been written to the sink.
C4_StopDrainsAllRecords ==
    \A st \in Stoppers :
        stopPc[st] = "returned" => \A i \in returnedBefore[st] : Marshal(i) \in Written

\* C5: RecordHit never waits: whenever a call is at its send, the send can
\* complete at once (there is room in the queue, or a worker is receiving).
C5_RecordNeverBlocks ==
    \A i \in Records :
        recPc[i] = "send" =>
            \/ CanSend
            \/ recordsBufferSize = 0 /\ \E w \in Workers : wPc[w] = "select"

\* C14: a RecordHit called while shouldStop is set returns nil at once and
\* changes nothing in the pipeline: its record is in no queue, no buffer and
\* not in the sink.
C14_RecordNoOpAfterStop ==
    /\ [][\A i \in Records :
             recPc[i] = "idle" /\ recPc'[i] # "idle" /\ shouldStop > 0 =>
                 /\ recPc'[i] = "skipped"
                 /\ UNCHANGED <<shouldStop, recordsChan, chanClosed, poolWg, stopPc, wPc,
                                wBuf, sink, aPanic>>]_vars
    /\ [](\A i \in Records :
             recPc[i] = "skipped" =>
                 /\ shouldStop > 0
                 /\ \A k \in 1..Len(recordsChan) : recordsChan[k] # i
                 /\ \A w \in Workers : \A k \in 1..Len(wBuf[w]) : wBuf[w][k] # Marshal(i)
                 /\ Marshal(i) \notin Written)

\* one record was enqueued before the flag was set, the next call was a no-op
C14_Witness ==
    /\ recPc[1] = "returned"
    /\ recPc[2] = "skipped"
    /\ shouldStop = 1

Buffered(w) == {wBuf[w][k] : k \in 1..Len(wBuf[w])}

\* C22: a record in a worker's buffer is eventually written to the sink, even
\* when the buffer never reaches workerBufferSize and Stop is never called
\* (the only runs that end with it unwritten are those in which the process
\* has panicked, which takes two calls of Stop): the idle timeout of the
\* select sends the whole non-empty buffer and resets it, and so does the
\* first record processed once the forced flush interval has passed since the
\* last send; both reset the time of the last send
C22_BufferedEventuallyWritten ==
    /\ \A w \in Workers : \A i \in Records :
          (Marshal(i) \in Buffered(w)) ~> (Marshal(i) \in Written \/ aPanic # "")
    /\ [][\A w \in Workers :
            WorkerTimeout(w) =>
                /\ sink'[w] = sink[w] \o wBuf[w]
                /\ wBuf'[w] = <<>>
                /\ ~wStale'[w]]_vars
    /\ [][\A w \in Workers :
            (WorkerReceive(w) \/ WorkerReceiveDirect(w)) /\ wStale[w] =>
                /\ Len(sink'[w]) = Len(sink[w]) + Len(wBuf[w]) + 1
                /\ SubSeq(sink'[w], 1, Len(sink[w]) + Len(wBuf[w])) = sink[w] \o wBuf[w]
                /\ wBuf'[w] = <<>>
                /\ ~wStale'[w]]_vars

\* one worker with room for two records has written its only record although
\* no Stop has set the flag or closed the queue
C22_Witness ==
    /\ poolSize = 1
    /\ recordsBufferSize = 2
    /\ sink[1] = <<Marshal(1)>>
    /\ wBuf[1] = <<>>
    /\ recPc[2] = "idle"
    /\ shouldStop = 0
    /\ ~chanClosed

\* the records a worker has pulled from the queue, in the order it pulled
\* them: those it has written followed by those still in its buffer
Pulled(w) == IF wPc[w] = "exited" THEN sink[w] ELSE sink[w] \o wBuf[w]

PrefixOf(s, t) == Len(s) <= Len(t) /\ SubSeq(t, 1, Len(s)) = s

\* C23: a worker's writes to the sink appear in the order in which it pulled
\* the records from the queue, and the queue hands records out in the order
\* in which they were enqueued: a send puts the record at the tail, a receive
\* takes the head and puts it last among the worker's records, and the sink
\* of a worker only grows, by the worker's records in their order. Nothing
\* relates the writes of two workers
C23_OrderPerWorker ==
    /\ [][\A i \in Records :
            RecordSend(i) /\ aPanic' = "" => recordsChan' = Append(recordsChan, i)]_vars
    /\ [][recordsChan' # recordsChan =>
            \/ \E i \in Records : recordsChan' = Append(recordsChan, i)
            \/ recordsChan # <<>> /\ recordsChan' = Tail(recordsChan)]_vars
    /\ [][\A w \in Workers :
            WorkerReceive(w) =>
                /\ recordsChan' = Tail(recordsChan)
                /\ Pulled(w)' = Append(Pulled(w), Marshal(Head(recordsChan)))]_vars
    /\ [][\A w \in Workers :
            WorkerReceiveDirect(w) =>
                \E i \in Records :
                    /\ recPc[i] = "send"
                    /\ recPc'[i] = "returned"
                    /\ Pulled(w)' = Append(Pulled(w), Marshal(i))]_vars
    /\ [][\A w \in Workers :
            /\ PrefixOf(sink[w], sink'[w])
            /\ PrefixOf(sink'[w], Pulled(w)')
            /\ PrefixOf(Pulled(w), Pulled(w)')
            /\ Len(Pulled(w)') <= Len(Pulled(w)) + 1]_vars

\* with two workers, one has pulled both records and written them in two
\* sends while the other wrote nothing
C23_Witness ==
    /\ poolSize = 2
    /\ workerBufferSize = 0
    /\ sink[2] = <<Marshal(1), Marshal(2)>>
    /\ sink[1] = <<>>
    /\ wBuf[1] = <<>>
    /\ wBuf[2] = <<>>
    /\ ~chanClosed

RECURSIVE PulledUpTo(_)
\* the records pulled by the workers 1..n, worker after worker
PulledUpTo(n) == IF n = 0 THEN <<>> ELSE PulledUpTo(n - 1) \o Pulled(n)

\* every record the pipeline holds: those in the queue (as they will be
\* encoded), then those pulled by the workers
Held == [k \in 1..Len(recordsChan) |-> Marshal(recordsChan[k])] \o PulledUpTo(MaxPoolSize)

NoDuplicates(s) == \A a \in 1..Len(s) : \A b \in (a + 1)..Len(s) : s[a] # s[b]

\* C28: no record is written to the sink more than once: a record is in at
\* most one place (the queue, or one worker's buffer, or once in one worker's
\* sink), so each queued record is received by exactly one worker, a flush
\* empties the buffer it wrote, and what the final flush on closure writes
\* was not written before
C28_WrittenAtMostOnce ==
    /\ NoDuplicates(Held)
    /\ \A i \in Records :
          recPc[i] \in {"idle", "skipped"} => \A k \in 1..Len(Held) : Held[k] # Marshal(i)

\* the worker wrote record 1 on a timeout, received record 2, and wrote it
\* in its final flush when the queue was closed
C28_Witness ==
    /\ poolSize = 1
    /\ recordsBufferSize = 2
    /\ wPc[1] = "exited"
    /\ wBuf[1] = <<Marshal(2)>>
    /\ sink[1] = <<Marshal(1), Marshal(2)>>

\* C29: the buffer of a worker never holds more than workerBufferSize
\* records, whatever the configuration, also when RecordsBufferSize is below
\* PoolSize and workerBufferSize is 0
C29_BufferWithinCapacity ==
    \A w \in Workers : Len(wBuf[w]) <= workerBufferSize

\* C25: from the return of Start until the first shutdown request (the
\* shutdown callback's call of Stop) the pipeline stays running: shouldStop
\* is 0, the queue is open, all poolSize workers are alive and no RecordHit
\* has been turned away
C25_RunningUntilShutdown ==
    (aPc = "started" /\ stopPc["callback"] = "idle") =>
        /\ shouldStop = 0
        /\ ~chanClosed
        /\ \A w \in 1..poolSize : wPc[w] = "select"
        /\ \A i \in Records : recPc[i] # "skipped"
        /\ aPanic = ""

\* C26: the records queue is closed at most once: no run reaches the panic
\* of closing a closed channel
C26_ClosedAtMostOnce == aPanic # "close of closed channel"

\* C27: RecordHit never sends on the closed records queue
C27_NoSendOnClosed == aPanic # "send on closed channel"

-----------------------------------------------------------------------------
(* Claims about the shutdown of the authorization server *)

\* C11: the shutdown callbacks run in registration order, which for the
\* authorization server is: the pipeline's Stop, the cancel of the Loader's
\* context, the close of the API server; and once the coordinator has begun
\* to run them, nothing ends the process before all of them have run.
C11_CallbacksRunInOrder ==
    /\ Len(ran) <= Len(callbacks) /\ ran = SubSeq(callbacks, 1, Len(ran))
    /\ srvPc = "prepared" /\ analyticsEnable /\ ~initFails
          => callbacks = <<CbAnalyticsStop, CbCancel, CbClose>>
    /\ gsPc = "done" \/ (gsPc = "draining" /\ aPanic # "") => ran = callbacks

-----------------------------------------------------------------------------
(* Claims about the authentication middleware *)

\* the handler has evaluated KeyExpired(secret.Expires)
ExpiryChecked == afPc = "bind" \/ (afPc = "done" /\ (afNext \/ afRsp.code = "ErrExpired"))

\* C18: KeyExpired is false for expires = 0 whatever the time; true for an
\* expires >= 1 strictly before now, so for expires = now - 1 second; and
\* false for an expires at or after now.
C18_ExpiryBoundary ==
    ExpiryChecked =>
        LET e == afSecret.Expires
        IN  /\ e = 0 => ~afExpired
            /\ e >= 1 /\ (e < tNow.sec \/ (e = tNow.sec /\ tNow.nsec > 0)) => afExpired
            /\ e >= 1 /\ e = tNow.sec - 1 => afExpired
            /\ e > tNow.sec \/ (e = tNow.sec /\ tNow.nsec = 0) => ~afExpired

\* a secret that expired one second ago was found expired
C18_Witness ==
    /\ ExpiryChecked
    /\ afSecret.Expires >= 1
    /\ afSecret.Expires = tNow.sec - 1
    /\ afExpired
    /\ afRsp.code = "ErrExpired"

\* the kind of error a response reports
ReportedKind(response) ==
    CASE response.code = "ErrSignatureInvalid" -> "InvalidSignature"
      [] response.code = "ErrExpired" -> "Expired"
      [] response.code = "ErrMissingHeader" -> "MissingHeader"
      [] OTHER -> "none"

\* C19: a failed authentication of a presented credential is reported as one of MissingKeyID,
\* MissingSecret, InvalidSignature, Expired, and as the one that is its cause:
\* no kid in the header, a kid the cache does not resolve, a signature that
\* does not verify under the resolved secret, an expired secret.
C19_ErrorMatchesCause ==
    afPc = "done" /\ afRsp.aborted /\ hasHeader =>
        /\ ReportedKind(afRsp) \in {"MissingKeyID", "MissingSecret", "InvalidSignature", "Expired"}
        /\ token.wellFormed /\ token.alg = "HS256" =>
              /\ token.kid = "" => ReportedKind(afRsp) = "MissingKeyID"
              /\ token.kid # "" /\ CacheGet(token.kid).err => ReportedKind(afRsp) = "MissingSecret"
              /\ token.kid # "" /\ ~CacheGet(token.kid).err
                    /\ token.signedWith # CacheGet(token.kid).secret.Key
                    => ReportedKind(afRsp) = "InvalidSignature"
              /\ afErr = "" => ReportedKind(afRsp) = "Expired"

\* the request carries a token that verifies against the cached secret
Verified ==
    /\ hasHeader
    /\ token.wellFormed
    /\ token.alg = "HS256"
    /\ token.kid = "k1"
    /\ token.signedWith = CacheGet("k1").secret.Key
    /\ token.claimsValid

\* C24: the identity slot of the request is written, and the downstream
\* handler run, only on full success: after the signature was verified and
\* the secret found not expired, the expiry being looked at only after the
\* signature has verified. On every failure path the request is aborted, the
\* slot stays unset and the downstream handler is not run
C24_IdentityOnlyOnSuccess ==
    /\ (afUsername # "" \/ afNext) =>
          /\ afPc = "done"
          /\ Verified
          /\ ~KeyExpired(secretExpires)
          /\ afUsername = CacheGet("k1").secret.Username
          /\ afNext
          /\ afRsp = NoResponseWritten
    /\ afPc \in {"expiry", "bind"} => Verified
    /\ afExpired => Verified
    /\ afRsp.code = "ErrExpired" => Verified /\ KeyExpired(secretExpires)
    /\ afRsp # NoResponseWritten =>
          /\ afPc = "done"
          /\ afRsp.aborted
          /\ afUsername = ""
          /\ ~afNext
    /\ afPc = "done" => (afNext \/ afRsp.aborted)
    /\ afPc = "done" /\ ~(Verified /\ ~KeyExpired(secretExpires)) => afRsp.aborted

\* a verified request whose secret expires later than now has reached the
\* downstream handler with the username of the secret
C24_Witness ==
    /\ afPc = "done"
    /\ secretExpires = 2
    /\ tNow = [sec |-> 1, nsec |-> 1]
    /\ afUsername = "alice"
    /\ afNext
    /\ ~afRsp.aborted

-----------------------------------------------------------------------------
(* Specifications *)

AuthzSpecInit ==
    /\ AuthnParked
    /\ ServerParked
    /\ AnalyticsParked
    /\ AuthzInit
    /\ SignalInit
    /\ LoadInit

AuthzSpec == AuthzSpecInit /\ [][AuthzNext]_vars

SignalSpecInit ==
    /\ AuthnParked
    /\ ServerParked
    /\ AnalyticsParked
    /\ AuthzParked
    /\ SignalInit
    /\ LoadInit

SignalSpec == SignalSpecInit /\ [][SignalNext]_vars

LoadSpecInit ==
    /\ AuthnParked
    /\ ServerParked
    /\ AnalyticsParked
    /\ AuthzParked
    /\ SignalInit
    /\ LoadInit

LoadSpec == LoadSpecInit /\ [][LoadNext]_vars

AnalyticsSpecInit ==
    /\ AuthnParked
    /\ ServerParked
    /\ AnalyticsInit
    /\ AuthzParked
    /\ SignalInit
    /\ LoadInit

AnalyticsSpec == AnalyticsSpecInit /\ [][AnalyticsNext]_vars

ServerSpecInit ==
    /\ AuthnParked
    /\ ServerInit
    /\ AnalyticsInit
    /\ AuthzParked
    /\ SignalInit
    /\ LoadInit

ServerSpec == ServerSpecInit /\ [][ServerNext]_vars

AuthnSpecInit ==
    /\ AuthnInit
    /\ ServerParked
    /\ AnalyticsParked
    /\ AuthzParked
    /\ SignalInit
    /\ LoadInit

AuthnSpec == AuthnSpecInit /\ [][AuthnNext]_vars

\* every goroutine of the Loader is scheduled again and again
LoadFairSpec ==
    /\ LoadSpec
    /\ WF_vars(DoReloadStep("start"))
    /\ WF_vars(ReloadLoopStep)
    /\ WF_vars(QueueLoopStep)
    /\ WF_vars(PubSubStep)

\* every worker's select returns when its timer fires or the queue is closed
AnalyticsFairSpec ==
    /\ AnalyticsSpec
    /\ \A w \in Workers : WF_vars(WorkerTimeout(w)) /\ WF_vars(WorkerClosed(w))

\* the goroutine of SetupSignalHandler is scheduled as long as the process runs
SignalFairSpec == SignalSpec /\ WF_vars(SigGoroutine)

====
